---------------------------- MODULE Spec2Model ----------------------------
(***************************************************************************)
(* A model of the audit sink of the Copilot API gateway (AuditService):    *)
(* the buffered write queue, the periodic flusher, the per-day partition   *)
(* files, the startup retention purge and the read-side aggregation.       *)
(*                                                                         *)
(* Strings are modelled as sequences of tokens: a file name is             *)
(* <<"audit-", "2024-01-03", ".jsonl">>, an ISO timestamp is               *)
(* <<"2024-01-03", "T", "10:00:00.000Z">>.  A line of a partition file is  *)
(* a tuple <<kind>> or <<"object", entry>>.                                *)
(***************************************************************************)
EXTENDS Integers, Sequences, FiniteSets, TLC

\* ------------------------------------------------------------------ bounds
MaxEntries == 3      \* logRequest calls in one run
MaxOldLines == 2     \* lines of a partition that exists before construction
MaxOldFiles == 3     \* files in the log directory before construction
MaxAllEntries == 2   \* logRequest calls in a run of every operation together
MaxRequests == 3     \* inbound requests of the gateway in one run
MaxBodyLen == 4      \* characters of a request or response body
MaxModelRequests == 2  \* completion requests in a run of the model validation
MaxCompletions == 3  \* completions that ask for a concurrency slot in one run
MaxCap == 2          \* the largest concurrency cap the dashboard sets
MaxRateRequests == 3 \* requests that reach the rate check in one run
MaxRateLimit == 2    \* the largest rate limit the dashboard sets
MaxCeiling == 2      \* the largest iteration ceiling configured
MaxToolCalls == 2    \* tool calls the model requests in one turn
MaxClock == 3        \* how far the clock of the rate check runs, in ticks

\* --------------------------------------------------------------- calendar
\* The ISO dates the model knows, oldest first; DayNames[i] is day number i.
DayNames == << "2024-01-01", "2024-01-02", "2024-01-03", "2024-01-04" >>

\* The dates of the days before, oldest first: the last of them is day number 0.
ArchiveDayNames ==
    << "2023-12-20", "2023-12-21", "2023-12-22", "2023-12-23", "2023-12-24",
       "2023-12-25", "2023-12-26", "2023-12-27", "2023-12-28", "2023-12-29",
       "2023-12-30", "2023-12-31" >>

CalendarNames == ArchiveDayNames \o DayNames

\* The number of the first day of the calendar.
FirstDay == 1 - Len(ArchiveDayNames)

\* The ISO date of a day, and the day of an ISO date.
DayName(day) == CalendarNames[day - FirstDay + 1]
CalendarIndex ==
    [s \in { CalendarNames[i] : i \in DOMAIN CalendarNames } |->
        CHOOSE i \in DOMAIN CalendarNames : CalendarNames[i] = s]
DayNumber(s) == CalendarIndex[s] + FirstDay - 1

\* Date.now() and Date.getTime() count half days here: one day is 2 units.
DayUnits == 2

\* The day on which the service is constructed.
Today == 3

NaN == -1

\* new Date(s).getTime() for a date-only string: UTC midnight, NaN if unparsable.
DateGetTime(s) ==
    IF s \in DOMAIN CalendarIndex
    THEN DayNumber(s) * DayUnits
    ELSE NaN

\* ----------------------------------------------------------------- state
VARIABLES
    writeQueue,     \* AuditService.writeQueue
    flushInterval,  \* the timer handle stored in AuditService.flushInterval (0: undefined)
    timers,         \* handles of the interval timers that are armed
    flushes,        \* running flush() calls: each the groups it still has to append
    files,          \* the log directory: file name -> sequence of lines
    consoleErrors,  \* entries named by console.error in flush's catch
    nextId,         \* the next requestId the caller hands out
    retentionDays,  \* githubCopilotApi.audit.retentionDays
    now,            \* Date.now()
    cleanupPc,      \* cleanupOldLogs: "readdir", "unlink", "done"
    cleanupListing, \* cleanupOldLogs: the files readdir listed
    cleanupUnlinked,\* cleanupOldLogs: the files it has unlinked
    cleanupFailed,  \* cleanupOldLogs ended in its catch
    cleanupRefused, \* cleanupOldLogs: the files whose unlink was rejected
    cleanupStarts,  \* calls of cleanupOldLogs
    statsCall,      \* the running getDailyStats call, waiting for a readFile
    readResult,     \* what the last read-side call returned
    requests,       \* the gateway's inbound requests: requestId -> where each stands
    redaction,      \* the ids of the redaction patterns that are enabled
    registry,       \* the model registry: the ids of the available models
    modelRequests,  \* completion requests by the model they name, and their answers
    maxConcurrency, \* server.maxConcurrentRequests: the global concurrency cap
    activeCount,    \* the Admission Controller's counter of active completions
    completions,    \* the completions that asked for a slot, in order of arrival
    rateLimitPerMinute, \* server.rateLimitPerMinute (0: unlimited)
    rateClock,      \* the Admission Controller's clock
    rateWindows,    \* caller -> the times of its admitted requests still in the window
    rateLog,        \* the requests that reached the rate check, in order of arrival
    toolLoops,      \* the Tool Orchestrator's state machine of each completion
    clients,        \* McpService.clients: the connected servers, in insertion order
    cachedTools,    \* McpService.cachedTools
    toolListing,    \* the last merged tool set the gateway offered
    toolCalls,      \* the calls of VSCodeToolProvider.callTool, with their outcomes
    lmModels,       \* vscode.lm: the chat models of the host, in the order it lists them
    pickerOptions,  \* the model ids the app's model picker offers beside 'auto'
    appRuns,        \* the runs of AppService.executeApp, with the model each was sent to
    running,        \* whether the gateway's server is running
    starts,         \* how often the server went from stopped to running
    showNotifications, \* githubCopilotApi.server.showNotifications
    wasRunning,     \* activate's variable wasRunning
    handlers,       \* the onDidChangeStatus handlers in flight, oldest first
    shown,          \* the 'server started' notifications shown, by the start they fell in
    statusEvents,   \* how many status-change events the gateway fired
    allDiagnostics, \* vscode.languages.getDiagnostics(): the diagnostics of each file
    diagnosticsResult, \* what the last call of VSCodeToolProvider.getDiagnostics returned
    lastRefresh,    \* what the last completed refreshServers met: setting, connects, lists
    clientEntries,  \* the entries of the Map McpService.clients with their Client objects
    openClients,    \* the Client objects that are connected and on which close() was not called
    clientsMade,    \* the Client objects constructed so far: the server each was made for
    refreshRuns,    \* the refreshServers calls in flight, each at its await
    refreshCalls,   \* how often refreshServers was called
    webviewPanels,  \* the panels vscode.window.createWebviewPanel made, in order
    panelFaults,    \* the calls of reveal and the writes of html on a disposed panel
    currentPanel,   \* CopilotPanel.currentPanel (0: undefined)
    panelCalls,     \* the createOrShow calls in flight, each awaiting getPanelHtml
    createOrShowCalls, \* how often createOrShow was called
    hubPanel,       \* AppsPanel.hubPanel (0: undefined)
    appPanels,      \* AppsPanel.appPanels: app id -> panel
    lastOpen,       \* what the last openAppsHub or openApp did
    gateway,        \* the variable gateway of the extension module (0: undefined)
    gatewaysMade,   \* how many CopilotApiGateway objects were constructed
    gatewayCalls    \* the calls of getGateway: who called, and what each was answered

vars == << writeQueue, flushInterval, timers, flushes, files, consoleErrors,
           nextId, retentionDays, now, cleanupPc, cleanupListing, cleanupUnlinked,
           cleanupFailed, cleanupRefused,
           cleanupStarts, statsCall, readResult, requests, redaction,
           registry, modelRequests, maxConcurrency, activeCount, completions,
           rateLimitPerMinute, rateClock, rateWindows, rateLog, toolLoops,
           clients, cachedTools, toolListing, toolCalls,
           lmModels, pickerOptions, appRuns,
           running, starts, showNotifications, wasRunning, handlers, shown,
           statusEvents, allDiagnostics, diagnosticsResult, lastRefresh,
           clientEntries, openClients, clientsMade, refreshRuns, refreshCalls,
           webviewPanels, panelFaults, currentPanel, panelCalls, createOrShowCalls,
           hubPanel, appPanels, lastOpen, gateway, gatewaysMade, gatewayCalls >>

auditVars == << writeQueue, flushInterval, timers, flushes, consoleErrors, nextId >>
cleanupVars == << cleanupPc, cleanupListing, cleanupUnlinked, cleanupFailed,
                 cleanupRefused, cleanupStarts >>
configVars == << retentionDays, now >>
gatewayVars == << requests, redaction >>
modelVars == << registry, modelRequests >>

\* What the audit sink and the pipeline above never touch.
concurrencyVars == << maxConcurrency, activeCount, completions >>
rateVars == << rateLimitPerMinute, rateClock, rateWindows, rateLog >>
mcpVars == << clients, cachedTools, toolListing >>
appVars == << lmModels, pickerOptions, appRuns >>
notifyVars == << running, starts, showNotifications, wasRunning, handlers, shown,
                statusEvents >>
diagVars == << allDiagnostics, diagnosticsResult >>
webviewVars == << webviewPanels, panelFaults >>
dashVars == << currentPanel, panelCalls, createOrShowCalls >>
appsPanelVars == << hubPanel, appPanels, lastOpen >>
activationVars == << gateway, gatewaysMade, gatewayCalls >>
hostVars == << diagVars, webviewVars, dashVars, appsPanelVars, activationVars >>
mcpStepVars == << clientEntries, openClients, clientsMade, refreshRuns, refreshCalls >>
mcpRunVars == << lastRefresh, mcpStepVars >>
laterVars == << mcpVars, toolCalls, appVars, notifyVars, hostVars, mcpRunVars >>
extVars == << modelVars, concurrencyVars, rateVars, toolLoops, laterVars >>

\* The callers of the gateway, by IP.
Callers == { "10.0.0.1", "10.0.0.2" }

\* server.maxConcurrentRequests when it is not configured.
DefaultMaxConcurrentRequests == 4

\* The rest of the extension when it is activated: nothing has happened yet.
ExtIdle ==
    /\ registry = { "m1" }
    /\ modelRequests = << >>
    /\ maxConcurrency = DefaultMaxConcurrentRequests
    /\ activeCount = 0
    /\ completions = << >>
    /\ rateLimitPerMinute = 0
    /\ rateClock = 0
    /\ rateWindows = [c \in Callers |-> << >>]
    /\ rateLog = << >>
    /\ toolLoops = << >>
    /\ clients = << >>
    /\ cachedTools = << >>
    /\ toolListing = [registered |-> << >>, tools |-> << >>, warnings |-> {}]
    /\ toolCalls = << >>
    /\ lmModels = << >>
    /\ pickerOptions = << >>
    /\ appRuns = << >>
    /\ running = FALSE
    /\ starts = 0
    /\ showNotifications = TRUE
    /\ wasRunning = FALSE
    /\ handlers = << >>
    /\ shown = << >>
    /\ statusEvents = 0
    /\ allDiagnostics = << >>
    /\ diagnosticsResult = [op |-> "none"]
    /\ lastRefresh = [op |-> "none"]
    /\ clientEntries = << >>
    /\ openClients = {}
    /\ clientsMade = << >>
    /\ refreshRuns = << >>
    /\ refreshCalls = 0
    /\ webviewPanels = << >>
    /\ panelFaults = {}
    /\ currentPanel = 0
    /\ panelCalls = << >>
    /\ createOrShowCalls = 0
    /\ hubPanel = 0
    /\ appPanels = << >>
    /\ lastOpen = [op |-> "none"]
    /\ gateway = 0
    /\ gatewaysMade = 0
    /\ gatewayCalls = << >>

SeqSet(q) == { q[k] : k \in 1..Len(q) }

RECURSIVE SeqsUpTo(_, _)
SeqsUpTo(S, n) ==
    IF n = 0 THEN { << >> }
    ELSE LET shorter == SeqsUpTo(S, n - 1)
         IN  shorter \cup { Append(q, x) : q \in shorter, x \in S }

\* ------------------------------------------------------------ file names
PartitionName(date) == << "audit-" >> \o date \o << ".jsonl" >>

StartsWithAudit(file) == Len(file) >= 1 /\ file[1] = "audit-"
EndsWithJsonl(file) == Len(file) >= 1 /\ file[Len(file)] = ".jsonl"

\* file.slice(6, -6): what is left without the leading 'audit-' and the trailing '.jsonl'.
DatePart(file) == SubSeq(file, 2, Len(file) - 1)

\* new Date(datePart).getTime()
FileDate(file) ==
    IF Len(DatePart(file)) = 1 THEN DateGetTime(DatePart(file)[1]) ELSE NaN

\* --------------------------------------------------------------- entries
\* entry.timestamp.split('T')[0]
SplitT0(timestamp) ==
    IF \E i \in 1..Len(timestamp) : timestamp[i] = "T"
    THEN SubSeq(timestamp, 1,
                (CHOOSE i \in 1..Len(timestamp) :
                    /\ timestamp[i] = "T"
                    /\ \A j \in 1..(i - 1) : timestamp[j] # "T") - 1)
    ELSE timestamp

\* JSON.stringify(e): one line holding a JSON object.
Stringify(e) == << "object", e >>

\* What a caller may pass to logRequest.  The timestamp is the caller's
\* new Date().toISOString(); a request is at the earliest of the day of construction.
LogDays == { Today, Today + 1 }
LogTimes == { "12:00:00.000Z" }
Profiles ==
    { [durationMs |-> 10, status |-> 200, tokensIn |-> 3, tokensOut |-> 4, ip |-> "10.0.0.1"],
      [durationMs |-> 5,  status |-> 500, tokensIn |-> 0, tokensOut |-> 0, ip |-> ""] }

\* An AuditEntry.  An optional number that is absent is 0 and an absent ip is "":
\* the code tests them for truthiness only.
MkEntry(id, day, time, p, reqBody, respBody) ==
    [requestId |-> id,
     timestamp |-> << DayName(day), "T", time >>,
     durationMs |-> p.durationMs, status |-> p.status,
     tokensIn |-> p.tokensIn, tokensOut |-> p.tokensOut, ip |-> p.ip,
     requestBody |-> reqBody, responseBody |-> respBody]

NewEntries(id) ==
    { MkEntry(id, d, t, p, << >>, << >>) : d \in LogDays, t \in LogTimes, p \in Profiles }

\* ------------------------------------------------------------------ flush
\* flush, lines 112-122: the entries grouped by date, the groups in the order in
\* which their dates first occur (a Map keeps insertion order).
RECURSIVE GroupFrom(_, _)
GroupFrom(entries, groups) ==
    IF entries = << >> THEN groups
    ELSE LET e == Head(entries)
             dateStr == SplitT0(e.timestamp)
             has == \E i \in 1..Len(groups) : groups[i].date = dateStr
         IN  IF has
             THEN LET i == CHOOSE k \in 1..Len(groups) : groups[k].date = dateStr
                  IN  GroupFrom(Tail(entries),
                        [groups EXCEPT ![i].entries = Append(@, e)])
             ELSE GroupFrom(Tail(entries),
                        Append(groups, [date |-> dateStr, entries |-> << e >>]))

GroupByDate(entries) == GroupFrom(entries, << >>)

\* flush, lines 109-110: what the flush takes and what it leaves in the queue.
FlushTakeRequeues(queue) == [entries |-> queue, rest |-> queue]
FlushTake(queue) == [entries |-> queue, rest |-> << >>]

\* flush, line 126: the lines appended for one group.
RECURSIVE GroupContent(_)
GroupContent(daysEntries) ==
    IF daysEntries = << >> THEN << >>
    ELSE << Stringify(Head(daysEntries)) >> \o GroupContent(Tail(daysEntries))

\* flush, line 125: the file one group is appended to.
GroupFileFirstDate(group, allGroups) == PartitionName(allGroups[1].date)
GroupFile(group, allGroups) == PartitionName(group.date)

\* fs.promises.appendFile: the file is created when missing.
AppendFileOverwrites(fs, file, content) ==
    [f \in DOMAIN fs \cup { file } |-> IF f = file THEN content ELSE fs[f]]
AppendFile(fs, file, content) ==
    IF file \in DOMAIN fs
    THEN [fs EXCEPT ![file] = @ \o content]
    ELSE [f \in DOMAIN fs \cup { file } |-> IF f = file THEN content ELSE fs[f]]

\* flush, lines 130-133: the write queue after a failed append of `group`.
QueueAfterFailureRequeue(queue, group) == queue \o group.entries
QueueAfterFailure(queue, group) == queue

\* The synchronous head of flush(): lines 105-127, up to the first appendFile.
Flush ==
    IF Len(writeQueue) = 0
    THEN UNCHANGED << writeQueue, flushes >>
    ELSE LET took == FlushTake(writeQueue)
             groups == GroupByDate(took.entries)
         IN  /\ writeQueue' = took.rest
             /\ flushes' = Append(flushes, [all |-> groups, at |-> 1])

RemoveAt(s, i) == SubSeq(s, 1, i - 1) \o SubSeq(s, i + 1, Len(s))

\* The pending appendFile of running flush i settles (lines 128-133) and the
\* loop goes on to the next group, or the flush returns.
FlushAppendSettles(i, ok) ==
    /\ i \in 1..Len(flushes)
    /\ LET f == flushes[i]
           group == f.all[f.at]
       IN  /\ IF ok
              THEN /\ files' = AppendFile(files, GroupFile(group, f.all),
                                          GroupContent(group.entries))
                   /\ UNCHANGED << writeQueue, consoleErrors >>
              ELSE /\ consoleErrors' = consoleErrors \cup
                                       { group.entries[k] : k \in 1..Len(group.entries) }
                   /\ writeQueue' = QueueAfterFailure(writeQueue, group)
                   /\ UNCHANGED files
           /\ flushes' = IF f.at < Len(f.all)
                         THEN [flushes EXCEPT ![i].at = @ + 1]
                         ELSE RemoveAt(flushes, i)
    /\ UNCHANGED << flushInterval, timers, nextId, statsCall, readResult >>
    /\ UNCHANGED cleanupVars
    /\ UNCHANGED configVars
    /\ UNCHANGED extVars
    /\ UNCHANGED gatewayVars

\* logRequest, lines 93-95.  What the caller changes of its own state in the
\* same step is the caller's to say.
LogRequest(entry) ==
    /\ writeQueue' = Append(writeQueue, entry)
    /\ UNCHANGED << flushInterval, timers, flushes, files, consoleErrors, statsCall, readResult >>
    /\ UNCHANGED cleanupVars
    /\ UNCHANGED configVars
    /\ UNCHANGED extVars

\* startPeriodicFlush, lines 97-102: the stored handle and the armed timers after it.
StartPeriodicFlush(handle, armed) ==
    LET cleared == IF handle # 0 THEN armed \ { handle } ELSE armed
        fresh == handle + 1
    IN  [flushInterval |-> fresh, timers |-> cleared \cup { fresh }]

\* The interval timer fires: setInterval(() => this.flush(), FLUSH_MS), line 101.
TimerFires ==
    /\ timers # {}
    /\ Flush
    /\ UNCHANGED << flushInterval, timers, files, consoleErrors, nextId, statsCall, readResult >>
    /\ UNCHANGED cleanupVars
    /\ UNCHANGED configVars
    /\ UNCHANGED extVars
    /\ UNCHANGED gatewayVars

\* dispose, lines 268-273.
Dispose ==
    /\ IF flushInterval # 0
       THEN /\ timers' = timers \ { flushInterval }
            /\ Flush
       ELSE UNCHANGED << timers, writeQueue, flushes >>
    /\ UNCHANGED << flushInterval, files, consoleErrors, nextId, statsCall, readResult >>
    /\ UNCHANGED cleanupVars
    /\ UNCHANGED configVars
    /\ UNCHANGED extVars
    /\ UNCHANGED gatewayVars

\* ---------------------------------------------------------- retention purge
\* cleanupOldLogs, lines 65-77: whether the loop unlinks `file`.
ShouldDeleteAnyName(file, nowMs, retention) ==
    /\ FileDate(file) # NaN
    /\ nowMs - FileDate(file) > retention * DayUnits
ShouldDelete(file, nowMs, retention) ==
    /\ StartsWithAudit(file) /\ EndsWithJsonl(file)
    /\ FileDate(file) # NaN
    /\ nowMs - FileDate(file) > retention * DayUnits

\* cleanupOldLogs, lines 52-57: where the call stands when the constructor returns.
CleanupEntry(retention) == IF retention <= 0 THEN "done" ELSE "readdir"

\* The loop of lines 64-81 runs on without suspending until an unlink is awaited.
CleanupNextPc(left) ==
    IF \E f \in left : ShouldDelete(f, now, retentionDays) THEN "unlink" ELSE "done"

\* readdir settles (line 60); a failure goes to the catch of line 82.
CleanupReaddirSettles(ok) ==
    /\ cleanupPc = "readdir"
    /\ IF ok
       THEN /\ cleanupListing' = DOMAIN files
            /\ cleanupPc' = CleanupNextPc(DOMAIN files)
            /\ UNCHANGED cleanupFailed
       ELSE /\ cleanupFailed' = TRUE
            /\ cleanupPc' = "done"
            /\ UNCHANGED cleanupListing
    /\ UNCHANGED << files, cleanupUnlinked, cleanupRefused, cleanupStarts,
                    statsCall, readResult >>
    /\ UNCHANGED auditVars
    /\ UNCHANGED configVars
    /\ UNCHANGED extVars
    /\ UNCHANGED gatewayVars

RemoveFile(fs, file) == [f \in DOMAIN fs \ { file } |-> fs[f]]

\* The unlink of `file` settles (line 79).  The listing's order is the file
\* system's: any file the loop deletes may be the one it came to next.
CleanupUnlinkSettles(file, ok) ==
    /\ cleanupPc = "unlink"
    /\ file \in cleanupListing \ cleanupUnlinked
    /\ ShouldDelete(file, now, retentionDays)
    /\ IF ok /\ file \in DOMAIN files
       THEN /\ files' = RemoveFile(files, file)
            /\ cleanupUnlinked' = cleanupUnlinked \cup { file }
            /\ cleanupPc' = CleanupNextPc(cleanupListing \ (cleanupUnlinked \cup { file }))
            /\ UNCHANGED << cleanupFailed, cleanupRefused >>
       ELSE /\ cleanupFailed' = TRUE
            /\ cleanupRefused' = cleanupRefused \cup { file }
            /\ cleanupPc' = "done"
            /\ UNCHANGED << files, cleanupUnlinked >>
    /\ UNCHANGED << cleanupListing, cleanupStarts, statsCall, readResult >>
    /\ UNCHANGED auditVars
    /\ UNCHANGED configVars
    /\ UNCHANGED extVars
    /\ UNCHANGED gatewayVars

\* ------------------------------------------------------------ getDailyStats
\* A line of a partition is <<"object", entry>> (what flush wrote), or
\* <<"garbage">> (text that is not JSON, a torn write), <<"null">> (the JSON
\* value null), <<"emptyobj">> (the JSON object {}) or <<"blank">> (an empty line).

\* a + b in JavaScript, where undefined and NaN make NaN.
JsAdd(a, b) == IF a = NaN \/ b = NaN THEN NaN ELSE a + b

\* Math.round(a / b) for a >= 0 and b > 0: halves round up.
JsRoundDiv(a, b) == IF a = NaN THEN NaN ELSE (2 * a + b) \div (2 * b)

NoLines == [totalReq |-> 0, totalLat |-> 0, tokensIn |-> 0, tokensOut |-> 0,
            errors |-> 0, ips |-> {}]

\* getDailyStats, lines 159-172: one turn of the loop over a partition's lines.
FoldLine(acc, line) ==
    CASE line[1] = "blank" -> acc                    \* line 160
      [] line[1] = "garbage" -> acc                  \* JSON.parse throws: line 169
      [] line[1] = "null" ->                         \* parsed; entry.durationMs throws
            [acc EXCEPT !.totalReq = @ + 1]          \* after totalReq++
      [] line[1] = "emptyobj" ->                     \* parsed; every field undefined
            [acc EXCEPT !.totalReq = @ + 1, !.totalLat = NaN]
      [] line[1] = "object" ->
            LET entry == line[2]
            IN  [totalReq |-> acc.totalReq + 1,
                 totalLat |-> JsAdd(acc.totalLat, entry.durationMs),
                 tokensIn |-> acc.tokensIn + entry.tokensIn,
                 tokensOut |-> acc.tokensOut + entry.tokensOut,
                 errors |-> acc.errors + (IF entry.status >= 400 THEN 1 ELSE 0),
                 ips |-> IF entry.ip # "" THEN acc.ips \cup { entry.ip } ELSE acc.ips]

RECURSIVE FoldLines(_, _)
FoldLines(acc, lines) ==
    IF lines = << >> THEN acc ELSE FoldLines(FoldLine(acc, Head(lines)), Tail(lines))

\* getDailyStats, lines 174-183: the record pushed for a partition that was read.
DayStats(dateStr, lines) ==
    LET a == FoldLines(NoLines, lines)
    IN  [date |-> dateStr,
         totalRequests |-> a.totalReq,
         avgLatency |-> IF a.totalReq > 0 THEN JsRoundDiv(a.totalLat, a.totalReq) ELSE 0,
         tokensIn |-> a.tokensIn,
         tokensOut |-> a.tokensOut,
         totalTokens |-> a.tokensIn + a.tokensOut,
         errorCount |-> a.errors,
         uniqueIps |-> Cardinality(a.ips)]

\* getDailyStats, lines 188-197: the record pushed for a day without a partition.
ZeroStats(dateStr) ==
    [date |-> dateStr, totalRequests |-> 0, avgLatency |-> 0, tokensIn |-> 0,
     tokensOut |-> 0, totalTokens |-> 0, errorCount |-> 0, uniqueIps |-> 0]

\* getDailyStats, lines 142-144: the date string of turn i.  Days before the
\* calendar of the model share one name, of which no file exists.
StatsDateStr(i) ==
    LET day == (now - i * DayUnits) \div DayUnits
    IN  IF day \in FirstDay..Len(DayNames)
        THEN DayName(day) ELSE "0000-00-00"

\* a.date.localeCompare(b.date) < 0 for ISO dates.
DateRank(dateStr) ==
    IF dateStr \in DOMAIN CalendarIndex THEN CalendarIndex[dateStr] ELSE 0

\* stats.sort((a, b) => a.date.localeCompare(b.date)), line 202: a stable sort.
RECURSIVE SortFromRank(_, _)
SortFromRank(stats, rank) ==
    IF stats = << >> \/ rank > Len(CalendarNames) THEN << >>
    ELSE SelectSeq(stats, LAMBDA r : DateRank(r.date) = rank)
         \o SortFromRank(SelectSeq(stats, LAMBDA r : DateRank(r.date) > rank), rank + 1)

SortByDate(stats) == SortFromRank(stats, 0)

\* The loop of lines 141-199 from turn i on, run until it awaits a readFile
\* (the call is then waiting at turn `i`) or ends (i = lastDays).
RECURSIVE StatsRunOn(_, _, _)
StatsRunOn(i, lastDays, stats) ==
    IF i >= lastDays THEN [i |-> lastDays, stats |-> stats]
    ELSE IF StatsDateStr(i) = "0000-00-00"
         THEN \* every later turn is of a day before the calendar too
              [i |-> lastDays,
               stats |-> stats \o [k \in 1..(lastDays - i) |-> ZeroStats("0000-00-00")]]
    ELSE IF PartitionName(<< StatsDateStr(i) >>) \in DOMAIN files
         THEN [i |-> i, stats |-> stats]
         ELSE StatsRunOn(i + 1, lastDays, Append(stats, ZeroStats(StatsDateStr(i))))

LifetimeDays == 365

\* getLifetimeStats, lines 261-265.
\* The fold is a sum, evaluated here by halves to keep the evaluation shallow.
RECURSIVE ReduceTotals(_, _, _)
ReduceTotals(stats, lo, hi) ==
    IF lo > hi
    THEN [totalRequests |-> 0, totalTokensIn |-> 0, totalTokensOut |-> 0]
    ELSE IF lo = hi
    THEN [totalRequests |-> stats[lo].totalRequests,
          totalTokensIn |-> stats[lo].tokensIn,
          totalTokensOut |-> stats[lo].tokensOut]
    ELSE LET mid == (lo + hi) \div 2
             a == ReduceTotals(stats, lo, mid)
             b == ReduceTotals(stats, mid + 1, hi)
         IN  [totalRequests |-> a.totalRequests + b.totalRequests,
              totalTokensIn |-> a.totalTokensIn + b.totalTokensIn,
              totalTokensOut |-> a.totalTokensOut + b.totalTokensOut]

LifetimeTotals(stats) == ReduceTotals(stats, 1, Len(stats))

Idle == [op |-> "idle", lastDays |-> 0, i |-> 0, stats |-> << >>]

\* What the call returns once its loop has ended.
StatsReturn(call, stats) ==
    IF call.op = "lifetime"
    THEN [op |-> "lifetime", totals |-> LifetimeTotals(SortByDate(stats))]
    ELSE [op |-> "dailyStats", lastDays |-> call.lastDays, stats |-> SortByDate(stats)]

StatsCallStarts(op, lastDays) ==
    /\ statsCall = Idle
    /\ LET run == StatsRunOn(0, lastDays, << >>)
           call == [op |-> op, lastDays |-> lastDays, i |-> run.i, stats |-> run.stats]
       IN  IF run.i >= lastDays
           THEN /\ readResult' = StatsReturn(call, run.stats)
                /\ UNCHANGED statsCall
           ELSE /\ statsCall' = call
                /\ UNCHANGED readResult
    /\ UNCHANGED files
    /\ UNCHANGED auditVars
    /\ UNCHANGED cleanupVars
    /\ UNCHANGED configVars
    /\ UNCHANGED extVars
    /\ UNCHANGED gatewayVars

\* getDailyStats(lastDays) is called (line 137).
GetDailyStats(lastDays) == StatsCallStarts("dailyStats", lastDays)

\* getLifetimeStats is called (line 256): getDailyStats(365) and a fold.
GetLifetimeStats == StatsCallStarts("lifetime", LifetimeDays)

\* The readFile of the waiting getDailyStats call settles (line 149); a failure
\* is logged by the catch of line 184 and pushes nothing.
StatsReadSettles(ok) ==
    /\ statsCall # Idle
    /\ LET dateStr == StatsDateStr(statsCall.i)
           file == PartitionName(<< dateStr >>)
           pushed == IF ok /\ file \in DOMAIN files
                     THEN Append(statsCall.stats, DayStats(dateStr, files[file]))
                     ELSE statsCall.stats
           run == StatsRunOn(statsCall.i + 1, statsCall.lastDays, pushed)
       IN  IF run.i >= statsCall.lastDays
           THEN /\ readResult' = StatsReturn(statsCall, run.stats)
                /\ statsCall' = Idle
           ELSE /\ statsCall' = [statsCall EXCEPT !.i = run.i, !.stats = run.stats]
                /\ UNCHANGED readResult
    /\ UNCHANGED files
    /\ UNCHANGED auditVars
    /\ UNCHANGED cleanupVars
    /\ UNCHANGED configVars
    /\ UNCHANGED extVars
    /\ UNCHANGED gatewayVars

\* ------------------------------------------------------------ getLogEntries
MaxFilesRead == 14

\* The order of files.sort(): the names that pass the filter of line 213 differ
\* in their date part only; digits sort before letters.
StemRank(file) ==
    IF Len(DatePart(file)) = 1 THEN DateRank(DatePart(file)[1]) ELSE Len(CalendarNames) + 1

\* files.filter(...).sort().reverse(), line 213, as a sequence.
RECURSIVE ValidFilesFrom(_, _)
ValidFilesFrom(names, rank) ==
    IF names = {} \/ rank < 0 THEN << >>
    ELSE LET f == { n \in names : StemRank(n) = rank }
         IN  (IF f = {} THEN << >> ELSE << CHOOSE n \in f : TRUE >>)
             \o ValidFilesFrom(names \ f, rank - 1)

ValidFiles(fs) ==
    ValidFilesFrom({ n \in DOMAIN fs : StartsWithAudit(n) /\ EndsWithJsonl(n) },
                   Len(CalendarNames) + 1)

\* new Date(timestamp).getTime() of an entry's timestamp.
TimeOfDay(t) == IF t = "12:00:00.000Z" THEN 1 ELSE 0
TimestampGetTime(timestamp) ==
    DateGetTime(timestamp[1]) + TimeOfDay(timestamp[3])

\* Lines 221-230: the entries of one file, newest first.
RECURSIVE FileEntriesReversed(_)
FileEntriesReversed(lines) ==
    IF lines = << >> THEN << >>
    ELSE FileEntriesReversed(Tail(lines))
         \o (IF Head(lines)[1] = "object" THEN << Head(lines)[2] >> ELSE << >>)

RECURSIVE ConcatFiles(_, _, _)
ConcatFiles(fs, names, unreadable) ==
    IF names = << >> THEN << >>
    ELSE (IF Head(names) \in unreadable THEN << >>
          ELSE FileEntriesReversed(fs[Head(names)]))
         \o ConcatFiles(fs, Tail(names), unreadable)

\* allEntries.sort(...), line 237: stable, descending by time.
RECURSIVE SortDescFrom(_, _)
SortDescFrom(entries, t) ==
    IF entries = << >> \/ t < FirstDay * DayUnits THEN << >>
    ELSE SelectSeq(entries, LAMBDA e : TimestampGetTime(e.timestamp) = t)
         \o SortDescFrom(SelectSeq(entries, LAMBDA e : TimestampGetTime(e.timestamp) < t),
                         t - 1)

SortByTimeDesc(entries) == SortDescFrom(entries, (Len(DayNames) + 1) * DayUnits)

\* Array.prototype.slice(start, end) for 0 <= start.
SliceInclusive(s, start, end) ==
    SubSeq(s, start + 1, IF end + 1 < Len(s) THEN end + 1 ELSE Len(s))
Slice(s, start, end) ==
    SubSeq(s, start + 1, IF end < Len(s) THEN end ELSE Len(s))

Pages == { 1, 2 }
PageSizes == { 1, 2 }

\* getLogEntries, lines 205-250.  `unreadable` are the files whose readFile
\* fails; those of them that were read are named by console.error, line 233.
GetLogEntries(page, pageSize, unreadable) ==
    /\ LET valid == ValidFiles(files)
           newest == SubSeq(valid, 1, IF Len(valid) < MaxFilesRead
                                       THEN Len(valid) ELSE MaxFilesRead)
           allEntries == SortByTimeDesc(ConcatFiles(files, newest, unreadable))
           start == (page - 1) * pageSize
       IN  readResult' = [op |-> "logEntries", page |-> page, pageSize |-> pageSize,
                          total |-> Len(allEntries),
                          entries |-> Slice(allEntries, start, start + pageSize),
                          failed |-> unreadable \cap SeqSet(newest)]
    /\ UNCHANGED << files, statsCall >>
    /\ UNCHANGED auditVars
    /\ UNCHANGED cleanupVars
    /\ UNCHANGED configVars
    /\ UNCHANGED extVars
    /\ UNCHANGED gatewayVars

\* ------------------------------------------------------------ construction
\* A line flush wrote in an earlier session.
OldLine(day) ==
    Stringify(MkEntry(0, day, "12:00:00.000Z",
                      [durationMs |-> 7, status |-> 404, tokensIn |-> 1,
                       tokensOut |-> 0, ip |-> "10.0.0.2"], << >>, << >>))

\* Partitions of earlier days and of today, and files that are no partitions.
OldPartitions == { PartitionName(<< DayNames[d] >>) : d \in 1..Today }
OtherFiles ==
    { << "audit-", "backup", ".jsonl" >>,
      << "audit-", "2024-01-01", ".old", ".jsonl" >>,
      << "audit-", "2024-01-01", ".json" >>,
      << "app-", "2024-01-01", ".jsonl" >>,
      << "notes.txt" >> }

OldContent(file) ==
    IF file \in OldPartitions
    THEN << OldLine(FileDate(file) \div DayUnits) >>
    ELSE << << "garbage" >> >>

\* The state when the constructor (lines 41-49) returns, for a log directory
\* `dir` left by earlier sessions: the timer is armed and cleanupOldLogs has run
\* up to its first await.
Constructed(dir, retention, clock) ==
    /\ writeQueue = << >>
    /\ LET t == StartPeriodicFlush(0, {})
       IN  flushInterval = t.flushInterval /\ timers = t.timers
    /\ flushes = << >>
    /\ files = dir
    /\ consoleErrors = {}
    /\ nextId = 1
    /\ retentionDays = retention
    /\ now = clock
    /\ cleanupPc = CleanupEntry(retention)
    /\ cleanupListing = {}
    /\ cleanupUnlinked = {}
    /\ cleanupFailed = FALSE
    /\ cleanupRefused = {}
    /\ cleanupStarts = 1
    /\ statsCall = Idle
    /\ readResult = [op |-> "none"]
    /\ requests = << >>
    /\ redaction = {}
    /\ ExtIdle

DirOf(names) == [f \in names |-> OldContent(f)]

TodayPartition == PartitionName(<< DayNames[Today] >>)

\* --------------------------------------------------- the write path alone
Init ==
    \E names \in { {}, { TodayPartition } } :
        Constructed(DirOf(names), 0, Today * DayUnits + 1)

\* A caller that hands out request ids in turn and logs one entry per request.
CallerLogs(entry) ==
    /\ nextId <= MaxEntries
    /\ LogRequest(entry)
    /\ nextId' = nextId + 1
    /\ UNCHANGED gatewayVars

WriteNext ==
    \/ \E e \in NewEntries(nextId) : CallerLogs(e)
    \/ TimerFires
    \/ \E i \in 1..Len(flushes) : \E ok \in BOOLEAN : FlushAppendSettles(i, ok)
    \/ Dispose

Next == WriteNext

Spec == Init /\ [][Next]_vars

\* The scheduling the runtime guarantees: an armed interval timer keeps firing,
\* and a pending appendFile settles.
FlushSettles == \E i \in 1..Len(flushes) : \E ok \in BOOLEAN : FlushAppendSettles(i, ok)

LiveSpec == Init /\ [][Next]_vars /\ WF_vars(TimerFires) /\ WF_vars(FlushSettles)

\* ------------------------------------------------ every operation together
CleanupNext ==
    \/ \E ok \in BOOLEAN : CleanupReaddirSettles(ok)
    \/ \E f \in cleanupListing : \E ok \in BOOLEAN : CleanupUnlinkSettles(f, ok)

ReadNext ==
    \/ \E n \in 1..2 : GetDailyStats(n)
    \/ GetLifetimeStats
    \/ \E ok \in BOOLEAN : StatsReadSettles(ok)
    \/ \E page \in Pages : \E pageSize \in PageSizes :
            GetLogEntries(page, pageSize, {})

FewEntries(id) ==
    { e \in NewEntries(id) : e.status = 200 }

InitAll ==
    \E retention \in { 0, 1 } :
        Constructed(DirOf({ TodayPartition,
                            PartitionName(<< DayNames[1] >>),
                            << "audit-", "backup", ".jsonl" >> }),
                    retention, Today * DayUnits + 1)

NextAll ==
    \/ /\ nextId <= MaxAllEntries
       /\ \E e \in FewEntries(nextId) : CallerLogs(e)
    \/ TimerFires
    \/ \E i \in 1..Len(flushes) : \E ok \in BOOLEAN : FlushAppendSettles(i, ok)
    \/ CleanupNext
    \/ /\ readResult.op = "none"     \* one read-side call in a run
       /\ ReadNext

SpecAll == InitAll /\ [][NextAll]_vars

\* ------------------------------------------------------- the purge at large
\* Every log directory of at most MaxOldFiles files, every retention setting,
\* construction at midnight and at noon; the requests with these ids are logged
\* meanwhile.
PurgeRequests == { 1 }

InitPurge ==
    \E names \in { d \in SUBSET (OldPartitions \cup OtherFiles) :
                      Cardinality(d) <= MaxOldFiles } :
    \E retention \in { -1, 0, 1, 2 } :
    \E half \in { 0, 1 } :
        Constructed(DirOf(names), retention, Today * DayUnits + half)

NextPurge ==
    \/ /\ nextId \in PurgeRequests
       /\ CallerLogs(MkEntry(nextId, Today, "12:00:00.000Z",
                             CHOOSE p \in Profiles : p.status = 200, << >>, << >>))
    \/ TimerFires
    \/ \E i \in 1..Len(flushes) : \E ok \in BOOLEAN : FlushAppendSettles(i, ok)
    \/ CleanupNext

SpecPurge == InitPurge /\ [][NextPurge]_vars

\* ------------------------------------------------------ the read side alone
\* The lines a partition may hold when the service is constructed.
OldLines ==
    { OldLine(Today),
      Stringify(MkEntry(0, Today, "12:00:00.000Z",
                        CHOOSE p \in Profiles : p.status = 200, << >>, << >>)),
      << "garbage" >>, << "null" >>, << "emptyobj" >>, << "blank" >> }

InitRead ==
    \E lines \in SeqsUpTo(OldLines, MaxOldLines) :
    \E others \in { {}, { PartitionName(<< DayNames[Today - 1] >>) } } :
        Constructed([f \in { TodayPartition } \cup others |->
                        IF f = TodayPartition THEN lines ELSE OldContent(f)],
                    0, Today * DayUnits + 1)

NextRead == ReadNext

SpecRead == InitRead /\ [][NextRead]_vars

\* ------------------------------------------------------------ the gateway
\* The completion pipeline and its redaction belong to CopilotApiGateway, of
\* which the repository holds the callers only; they are modelled from the
\* specification (RedactionPattern, Audit Sink, Completion Pipeline).  What
\* they call, AuditService.logRequest, is the code above.

\* The characters of a body, and the mask put in place of a match.
Alphabet == { "a", "b" }
Mask == "[REDACTED]"

\* The redaction patterns in the order they are applied: built-in first, then
\* the user's.  Each matches one literal string.
PatternOrder == << "builtin-1", "user-1" >>
PatternRegex(id) == IF id = "builtin-1" THEN << "a", "b" >> ELSE << "b", "a" >>

StartsWith(text, pat) == Len(text) >= Len(pat) /\ SubSeq(text, 1, Len(pat)) = pat

\* text.replace(new RegExp(pat, 'g'), Mask): every match, left to right.
RECURSIVE ReplaceFirst(_, _)
ReplaceFirst(text, pat) ==
    IF text = << >> THEN << >>
    ELSE IF StartsWith(text, pat)
         THEN << Mask >> \o SubSeq(text, Len(pat) + 1, Len(text))
         ELSE << Head(text) >> \o ReplaceFirst(Tail(text), pat)
RECURSIVE ReplaceAll(_, _)
ReplaceAll(text, pat) ==
    IF text = << >> THEN << >>
    ELSE IF StartsWith(text, pat)
         THEN << Mask >> \o ReplaceAll(SubSeq(text, Len(pat) + 1, Len(text)), pat)
         ELSE << Head(text) >> \o ReplaceAll(Tail(text), pat)

\* The body with every enabled pattern applied, from pattern k of the order on.
RECURSIVE RedactFrom(_, _, _)
RedactFrom(text, k, enabled) ==
    IF k > Len(PatternOrder) THEN text
    ELSE RedactFrom(IF PatternOrder[k] \in enabled
                    THEN ReplaceAll(text, PatternRegex(PatternOrder[k]))
                    ELSE text,
                    k + 1, enabled)

Redact(text, enabled) == RedactFrom(text, 1, enabled)

Bodies == SeqsUpTo(Alphabet, MaxBodyLen)

\* What the audit entry says of a request, by the way the request ended.
Outcomes == { "success", "rejected", "error", "cancelled" }
OutcomeProfile(outcome) ==
    [durationMs |-> 10,
     status |-> CASE outcome = "success" -> 200
                  [] outcome = "rejected" -> 429
                  [] outcome = "cancelled" -> 499
                  [] OTHER -> 500,
     tokensIn |-> IF outcome = "success" THEN 3 ELSE 0,
     tokensOut |-> IF outcome = "success" THEN 4 ELSE 0,
     ip |-> "10.0.0.1"]

gatewayFrame ==
    /\ UNCHANGED << writeQueue, flushInterval, timers, flushes, files, consoleErrors,
                    statsCall, readResult >>
    /\ UNCHANGED cleanupVars
    /\ UNCHANGED configVars
    /\ UNCHANGED extVars

\* A request arrives and the Admission Controller accepts or rejects it.
GatewayArrives(admit) ==
    /\ nextId <= MaxRequests
    /\ requests' = Append(requests,
                          [phase |-> IF admit THEN "active" ELSE "finishing",
                           outcome |-> IF admit THEN "none" ELSE "rejected",
                           records |-> 0, redactedWith |-> {}])
    /\ nextId' = nextId + 1
    /\ UNCHANGED redaction
    /\ gatewayFrame

\* An admitted request ends: it succeeds, fails or is cancelled mid-stream.
GatewayFinishes(id, outcome) ==
    /\ id \in 1..Len(requests)
    /\ requests[id].phase = "active"
    /\ outcome \in Outcomes \ { "rejected" }
    /\ requests' = [requests EXCEPT ![id].phase = "finishing", ![id].outcome = outcome]
    /\ UNCHANGED << nextId, redaction >>
    /\ gatewayFrame

\* The pipeline emits the request's audit entry: the bodies are redacted with
\* the patterns enabled now, and the entry is handed to logRequest.
GatewayRecords(id, reqBody, respBody) ==
    /\ id \in 1..Len(requests)
    /\ requests[id].phase = "finishing"
    /\ LogRequest(MkEntry(id, Today, "12:00:00.000Z",
                          OutcomeProfile(requests[id].outcome),
                          Redact(reqBody, redaction), Redact(respBody, redaction)))
    /\ requests' = [requests EXCEPT ![id].phase = "closed",
                                    ![id].records = @ + 1,
                                    ![id].redactedWith = redaction]
    /\ UNCHANGED << nextId, redaction >>

\* toggleRedactionPattern(id, enabled), sent by the dashboard.
TogglePattern(p, enabled) ==
    /\ redaction' = IF enabled THEN redaction \cup { p } ELSE redaction \ { p }
    /\ UNCHANGED << requests, nextId >>
    /\ gatewayFrame

InitGateway ==
    /\ Constructed(DirOf({}), 0, Today * DayUnits + 1)

\* The pipeline over every way a request can end; the bodies are empty.
NextGateway ==
    \/ \E admit \in BOOLEAN : GatewayArrives(admit)
    \/ \E id \in 1..Len(requests) : \E o \in Outcomes : GatewayFinishes(id, o)
    \/ \E id \in 1..Len(requests) : GatewayRecords(id, << >>, << >>)
    \/ TimerFires
    \/ FlushSettles

SpecGateway == InitGateway /\ [][NextGateway]_vars

\* Redaction over every body and every setting of the patterns.  Redaction is
\* applied entry by entry: the run follows the requests with these ids.
RedactRequests == { 1 }
ResponseBodies == { << >>, << "b", "a", "b" >> }

NextRedact ==
    \/ /\ nextId \in RedactRequests
       /\ GatewayArrives(TRUE)
    \/ \E id \in 1..Len(requests) : GatewayFinishes(id, "success")
    \/ \E id \in 1..Len(requests) : \E rq \in Bodies : \E rs \in ResponseBodies :
            GatewayRecords(id, rq, rs)
    \/ \E p \in SeqSet(PatternOrder) : \E enabled \in BOOLEAN : TogglePattern(p, enabled)
    \/ TimerFires
    \/ FlushSettles

SpecRedact == InitGateway /\ [][NextRedact]_vars

\* ------------------------------------------------------------------ views

\* Every entry a running flush took, and those it has still to append.
RECURSIVE GroupsEntries(_, _)
GroupsEntries(groups, from) ==
    IF from > Len(groups) THEN {}
    ELSE SeqSet(groups[from].entries) \cup GroupsEntries(groups, from + 1)

FlushTaken(f) == GroupsEntries(f.all, 1)
FlushPending(f) == GroupsEntries(f.all, f.at)

\* The places <<file, line number>> where an entry with this requestId is persisted.
Occurrences(id) ==
    UNION { { << f, k >> : k \in { j \in 1..Len(files[f]) :
                                     /\ files[f][j][1] = "object"
                                     /\ files[f][j][2].requestId = id } }
            : f \in DOMAIN files }

Persisted(e) ==
    \E f \in DOMAIN files : \E k \in 1..Len(files[f]) : files[f][k] = << "object", e >>

\* ----------------------------------------------------------------- claims

\* C1: flush removes from the write buffer every entry it took, whether the
\* append succeeds or fails; the entries of a failed append are logged and
\* dropped (they are neither back in the queue, nor pending in a flush, nor in
\* any file), and no recorded entry is in storage more than once.
C1_FlushDropsWhatItTook ==
    /\ \A i \in 1..Len(flushes) : FlushTaken(flushes[i]) \cap SeqSet(writeQueue) = {}
    /\ \A e \in consoleErrors :
          /\ e \notin SeqSet(writeQueue)
          /\ \A i \in 1..Len(flushes) : e \notin FlushPending(flushes[i])
          /\ Occurrences(e.requestId) = {}
    /\ \A id \in 1..(nextId - 1) : Cardinality(Occurrences(id)) <= 1

\* C1 witness: an append failed, its entries were dropped, and a later flush
\* has appended a later entry.
C1_FailedThenLaterFlush ==
    /\ flushes = << >>
    /\ \E e \in consoleErrors :
          \E id \in (e.requestId + 1)..(nextId - 1) : Occurrences(id) # {}

\* C5 (as claimed): at most one flush has appends pending at any time, and at
\* most one periodic flush timer is armed.
C5_OneFlusherAtATime ==
    /\ Len(flushes) <= 1
    /\ Cardinality(timers) <= 1

\* C6: every persisted entry is in the partition audit-<D>.jsonl of the date
\* part D of its own timestamp.
C6_OwnDayPartition ==
    \A f \in DOMAIN files : \A k \in 1..Len(files[f]) :
        files[f][k][1] = "object" =>
            f = << "audit-", files[f][k][2].timestamp[1], ".jsonl" >>

\* C6 witness: a flush whose batch holds entries of two days has appended the
\* first day's group and is appending the second's.
C6_MixedBatchWritten ==
    \E i \in 1..Len(flushes) :
        /\ Len(flushes[i].all) = 2
        /\ flushes[i].at = 2
        /\ \A e \in SeqSet(flushes[i].all[1].entries) : Persisted(e)

IsPrefix(a, b) == Len(a) <= Len(b) /\ SubSeq(b, 1, Len(a)) = a

KeepsLines == \A f \in DOMAIN files : f \in DOMAIN files' /\ IsPrefix(files[f], files'[f])

PurgeStep == \E f \in cleanupListing : \E ok \in BOOLEAN : CleanupUnlinkSettles(f, ok)

\* C7: persisted data is append-only.  A step of logRequest, flush, getDailyStats,
\* getLogEntries or getLifetimeStats (any step that is not an unlink of the purge)
\* keeps every file and keeps its lines as a prefix of the file's new lines; a
\* step of the purge removes whole files and changes no line of the others.
C7_AppendOnly ==
    [][ /\ ~PurgeStep => KeepsLines
        /\ PurgeStep => \A f \in DOMAIN files' :
                            f \in DOMAIN files /\ files'[f] = files[f] ]_vars

\* C7 witness: today's partition of an earlier session has grown by an appended
\* line, the purge has deleted a partition and a read-side call has returned.
C7_GrownPurgedAndRead ==
    /\ TodayPartition \in DOMAIN files
    /\ Len(files[TodayPartition]) >= 2
    /\ files[TodayPartition][1] = OldLine(Today)
    /\ cleanupUnlinked # {}
    /\ readResult.op # "none"

\* A day partition whose date lies more than retentionDays days before now.
OlderThanHorizon(f) ==
    \E k \in DOMAIN DayNames :
        /\ f = << "audit-", DayNames[k], ".jsonl" >>
        /\ now - k * DayUnits > retentionDays * DayUnits

\* C9: a file disappears from the log directory only when retentionDays > 0 and
\* the file is a partition audit-<date>.jsonl older than the horizon; with
\* retentionDays <= 0 nothing is deleted, and partitions within the horizon,
\* files with another name and files whose date does not parse stay.
C9_PurgeDeletesOnlyOld ==
    [][ \A f \in DOMAIN files :
            f \notin DOMAIN files' => retentionDays > 0 /\ OlderThanHorizon(f) ]_vars

\* C9 witness: the purge has finished and deleted a partition, and has left a
\* partition within the horizon and a file whose date does not parse.
C9_PurgedAndKept ==
    /\ retentionDays > 0
    /\ cleanupPc = "done"
    /\ cleanupUnlinked # {}
    /\ << "audit-", "backup", ".jsonl" >> \in DOMAIN files
    /\ \E k \in DOMAIN DayNames :
          /\ << "audit-", DayNames[k], ".jsonl" >> \in DOMAIN files
          /\ ~OlderThanHorizon(<< "audit-", DayNames[k], ".jsonl" >>)

\* C10 (as claimed): with retentionDays > 0 the purge is started exactly once and,
\* once it has finished, no partition older than the horizon remains of those
\* the purge listed, but for a partition whose unlink the file system rejected.
C10_NoOldPartitionLeft ==
    /\ cleanupStarts = 1
    /\ (retentionDays > 0 /\ cleanupPc = "done") =>
          \A f \in (cleanupListing \cap DOMAIN files) \ cleanupRefused :
              ~OlderThanHorizon(f)

\* The lines of a partition that are well-formed AuditEntry objects.
WellFormed(lines) == SelectSeq(lines, LAMBDA l : l[1] = "object")

\* C8 (as claimed): getDailyStats skips malformed lines: the record it returns
\* for a day that has a partition equals the aggregates computed over the
\* well-formed entries of that partition alone.
C8_MalformedLinesSkipped ==
    readResult.op = "dailyStats" =>
        \A k \in 1..Len(readResult.stats) :
            LET r == readResult.stats[k]
                f == PartitionName(<< r.date >>)
            IN  f \in DOMAIN files => r = DayStats(r.date, WellFormed(files[f]))

\* C2 (as claimed): every entry passed to logRequest is eventually taken from
\* the write buffer and appended to a partition, unless the append of its
\* batch fails; no entry stays in the write buffer forever.
C2_EveryEntryLeavesTheBuffer ==
    \A id \in 1..MaxEntries :
        (id < nextId) ~> (\/ Occurrences(id) # {}
                          \/ \E e \in consoleErrors : e.requestId = id)

\* Whether the pattern matches somewhere in the text.
Matches(text, pat) ==
    \E i \in 1..Len(text) : i + Len(pat) - 1 <= Len(text)
                            /\ SubSeq(text, i, i + Len(pat) - 1) = pat

\* The entries of this session in the write queue, in a running flush or in a file.
HeldEntries ==
    SeqSet(writeQueue)
    \cup UNION { FlushTaken(flushes[i]) : i \in 1..Len(flushes) }
    \cup { e \in UNION { { files[f][k][2] : k \in { j \in 1..Len(files[f]) :
                                                      files[f][j][1] = "object" } }
                         : f \in DOMAIN files } : e.requestId >= 1 }

Unredacted(e) ==
    \E p \in requests[e.requestId].redactedWith :
        \/ Matches(e.requestBody, PatternRegex(p))
        \/ Matches(e.responseBody, PatternRegex(p))

\* C3: no unredacted body reaches durable storage: no entry handed to the sink
\* (queued, being flushed or appended to a partition) holds, in its request or
\* response body, a match of a pattern that was enabled when it was recorded.
C3_NoUnredactedBodyStored ==
    \A e \in HeldEntries : ~Unredacted(e)

\* C3 witness: a persisted line whose request body was masked under both
\* patterns and still holds a character that no pattern matched.
C3_MaskedLinePersisted ==
    \E e \in HeldEntries :
        /\ Persisted(e)
        /\ requests[e.requestId].redactedWith = SeqSet(PatternOrder)
        /\ Mask \in SeqSet(e.requestBody)
        /\ "a" \in SeqSet(e.requestBody)

\* How many copies of the request's entry the sink holds or has dropped.
Copies(id) ==
    Cardinality({ k \in 1..Len(writeQueue) : writeQueue[k].requestId = id })
    + Cardinality({ t \in UNION { { << i, g, k >> :
                                       g \in flushes[i].at..Len(flushes[i].all),
                                       k \in 1..MaxRequests }
                                  : i \in 1..Len(flushes) } :
                      /\ t[3] <= Len(flushes[t[1]].all[t[2]].entries)
                      /\ flushes[t[1]].all[t[2]].entries[t[3]].requestId = id })
    + Cardinality(Occurrences(id))
    + Cardinality({ e \in consoleErrors : e.requestId = id })

ModelIds == { "m1", "m2", "unknown" }
HostModels == { "m1", "m2" }

\* What a snapshot of the registry may hold: at least one model.  What the
\* gateway answers while the host offers no model at all is not specified.
Registries == (SUBSET HostModels) \ { {} }

\* The model a request resolves to: the one it names, or none.
ResolveModelFirstAvailable(requested, reg) ==
    IF requested \in reg THEN requested ELSE CHOOSE m \in reg : TRUE
ResolveModel(requested, reg) ==
    IF requested \in reg THEN requested ELSE "none"

modelFrame ==
    /\ UNCHANGED << files, statsCall, readResult >>
    /\ UNCHANGED auditVars
    /\ UNCHANGED cleanupVars
    /\ UNCHANGED configVars
    /\ UNCHANGED gatewayVars
    /\ UNCHANGED concurrencyVars
    /\ UNCHANGED rateVars
    /\ UNCHANGED toolLoops
    /\ UNCHANGED laterVars

\* The registry snapshot is refreshed on an explicit trigger.
RegistryRefresh(reg) ==
    /\ registry' = reg
    /\ UNCHANGED modelRequests
    /\ modelFrame

\* A completion request naming `model` arrives and is admitted.
ModelRequestArrives(model) ==
    /\ Len(modelRequests) < MaxModelRequests
    /\ modelRequests' = Append(modelRequests,
                               [model |-> model, phase |-> "decoding", status |-> 0,
                                error |-> "", listed |-> {}, snapshot |-> {},
                                invoked |-> << >>])
    /\ UNCHANGED registry
    /\ modelFrame

\* The adapter decodes the request and validates its model against the
\* registry: unknown models fail with ModelNotFound (404) listing the valid
\* models; a known model is sent to the Model Invoker.
ModelRequestDecodes(id) ==
    /\ id \in 1..Len(modelRequests)
    /\ modelRequests[id].phase = "decoding"
    /\ LET model == ResolveModel(modelRequests[id].model, registry)
       IN  modelRequests' =
             [modelRequests EXCEPT ![id] =
                IF model = "none"
                THEN [@ EXCEPT !.phase = "done", !.status = 404,
                               !.error = "ModelNotFound", !.listed = registry,
                               !.snapshot = registry]
                ELSE [@ EXCEPT !.phase = "awaitingModel", !.snapshot = registry,
                               !.invoked = Append(@, model)]]
    /\ UNCHANGED registry
    /\ modelFrame

\* The Model Invoker answers.
ModelInvokerReturns(id, ok) ==
    /\ id \in 1..Len(modelRequests)
    /\ modelRequests[id].phase = "awaitingModel"
    /\ modelRequests' = [modelRequests EXCEPT ![id].phase = "done",
                                              ![id].status = IF ok THEN 200 ELSE 502,
                                              ![id].error = IF ok THEN "" ELSE "UpstreamError"]
    /\ UNCHANGED registry
    /\ modelFrame

InitModels == Constructed(DirOf({}), 0, Today * DayUnits + 1)

NextModels ==
    \/ \E reg \in Registries : RegistryRefresh(reg)
    \/ \E model \in ModelIds : ModelRequestArrives(model)
    \/ \E id \in 1..Len(modelRequests) : ModelRequestDecodes(id)
    \/ \E id \in 1..Len(modelRequests) : \E ok \in BOOLEAN : ModelInvokerReturns(id, ok)

SpecModels == InitModels /\ [][NextModels]_vars

HasCapacityOffByOne(active, cap) == active <= cap
HasCapacity(active, cap) == active < cap

concurrencyFrame ==
    /\ UNCHANGED << files, statsCall, readResult >>
    /\ UNCHANGED auditVars
    /\ UNCHANGED cleanupVars
    /\ UNCHANGED configVars
    /\ UNCHANGED gatewayVars
    /\ UNCHANGED modelVars
    /\ UNCHANGED rateVars
    /\ UNCHANGED toolLoops
    /\ UNCHANGED laterVars

\* The dashboard posts setMaxConcurrency with a number.
SetMaxConcurrency(value) ==
    /\ maxConcurrency' = value
    /\ UNCHANGED << activeCount, completions >>
    /\ concurrencyFrame

\* A completion arrives at the global concurrency check: it takes a slot or
\* is rejected.
CompletionArrives ==
    /\ Len(completions) < MaxCompletions
    /\ LET admit == HasCapacity(activeCount, maxConcurrency)
       IN  /\ completions' = Append(completions,
                                    [phase |-> IF admit THEN "active" ELSE "rejected",
                                     cap |-> maxConcurrency, found |-> activeCount])
           /\ activeCount' = IF admit THEN activeCount + 1 ELSE activeCount
    /\ UNCHANGED maxConcurrency
    /\ concurrencyFrame

\* An active completion ends (done, failed, timed out or cancelled) and
\* releases its slot.
CompletionEnds(id) ==
    /\ id \in 1..Len(completions)
    /\ completions[id].phase = "active"
    /\ completions' = [completions EXCEPT ![id].phase = "ended"]
    /\ activeCount' = activeCount - 1
    /\ UNCHANGED maxConcurrency
    /\ concurrencyFrame

InitConcurrency == Constructed(DirOf({}), 0, Today * DayUnits + 1)

NextConcurrency ==
    \/ \E value \in 1..MaxCap : SetMaxConcurrency(value)
    \/ CompletionArrives
    \/ \E id \in 1..Len(completions) : CompletionEnds(id)

SpecConcurrency == InitConcurrency /\ [][NextConcurrency]_vars

\* The completions that hold a slot.
ActiveCompletions == { id \in 1..Len(completions) : completions[id].phase = "active" }

\* C12: the number of concurrently active completions never exceeds the cap K
\* (the cap in force when the newest of them was admitted: K itself while the
\* cap is not changed); a completion is rejected exactly when it finds K
\* active, so of K+1 simultaneous completions exactly one is rejected; and the
\* counter equals the number of active completions.
C12_NeverMoreThanCapActive ==
    /\ activeCount = Cardinality(ActiveCompletions)
    /\ ActiveCompletions # {} =>
          LET newest == CHOOSE id \in ActiveCompletions :
                            \A other \in ActiveCompletions : other <= id
          IN  Cardinality(ActiveCompletions) <= completions[newest].cap
    /\ \A id \in 1..Len(completions) :
          (completions[id].phase = "rejected") <=>
              (completions[id].found >= completions[id].cap)

\* C12 witness: under a cap of 2, three completions arrived while none ended:
\* two are active and exactly one was rejected.
C12_ThirdOfThreeRejected ==
    /\ Len(completions) = 3
    /\ \A id \in 1..3 : completions[id].cap = 2
    /\ completions[1].phase = "active" /\ completions[2].phase = "active"
    /\ completions[3].phase = "rejected"

\* ------------------------------------------------------------- rate limit
\* The sliding-window rate limit of the Admission Controller (check 3) is
\* modelled from the specification; the dashboard's setRateLimit message is
\* the code of CopilotPanel.

\* The rolling window of 60 seconds, in ticks of the clock (one tick is 30 s).
RateWindow == 2

\* Whether a request admitted at `t` still counts at `clock`.
InWindowForever(t, clock) == TRUE
InWindow(t, clock) == clock - t < RateWindow

\* The caller's window without the admissions that have left it.
Evict(window, clock) == SelectSeq(window, LAMBDA t : InWindow(t, clock))

rateFrame ==
    /\ UNCHANGED << files, statsCall, readResult >>
    /\ UNCHANGED auditVars
    /\ UNCHANGED cleanupVars
    /\ UNCHANGED configVars
    /\ UNCHANGED gatewayVars
    /\ UNCHANGED modelVars
    /\ UNCHANGED concurrencyVars
    /\ UNCHANGED toolLoops
    /\ UNCHANGED laterVars

\* The dashboard posts setRateLimit with a number.
SetRateLimit(value) ==
    /\ rateLimitPerMinute' = value
    /\ UNCHANGED << rateClock, rateWindows, rateLog >>
    /\ rateFrame

\* Time passes.
RateClockTicks ==
    /\ rateClock < MaxClock
    /\ rateClock' = rateClock + 1
    /\ UNCHANGED << rateLimitPerMinute, rateWindows, rateLog >>
    /\ rateFrame

\* A request of `caller` reaches the rate check: it is admitted and counted,
\* or rejected.
RateCheck(caller) ==
    /\ Len(rateLog) < MaxRateRequests
    /\ LET window == Evict(rateWindows[caller], rateClock)
           admit == rateLimitPerMinute = 0 \/ Len(window) < rateLimitPerMinute
       IN  /\ rateWindows' = [rateWindows EXCEPT ![caller] =
                                 IF admit THEN Append(window, rateClock) ELSE window]
           /\ rateLog' = Append(rateLog, [caller |-> caller, at |-> rateClock,
                                          limit |-> rateLimitPerMinute,
                                          admitted |-> admit])
    /\ UNCHANGED << rateLimitPerMinute, rateClock >>
    /\ rateFrame

InitRate == Constructed(DirOf({}), 0, Today * DayUnits + 1)

NextRate ==
    \/ \E value \in 0..MaxRateLimit : SetRateLimit(value)
    \/ RateClockTicks
    \/ \E caller \in Callers : RateCheck(caller)

SpecRate == InitRate /\ [][NextRate]_vars

\* The requests of the same caller admitted before request k and less than a
\* window before it.
AdmittedInWindowBefore(k) ==
    { j \in 1..(k - 1) : /\ rateLog[j].caller = rateLog[k].caller
                         /\ rateLog[j].admitted
                         /\ rateLog[k].at - rateLog[j].at < RateWindow }

\* C13: with a rate limit of N > 0 per rolling window, a request is rejected
\* exactly when N requests of the same caller were admitted inside the window
\* ending at it (so the (N+1)-th is rejected, and a request arriving after the
\* window has elapsed is admitted again); with a limit of 0 no request is
\* rejected for rate.
C13_RateLimitWindow ==
    \A k \in 1..Len(rateLog) :
        /\ rateLog[k].limit = 0 => rateLog[k].admitted
        /\ rateLog[k].limit > 0 =>
              (rateLog[k].admitted <=>
                  Cardinality(AdmittedInWindowBefore(k)) < rateLog[k].limit)

\* C13 witness: under a limit of 1 a caller's second request inside the window
\* was rejected, and its request after the window had elapsed was admitted.
C13_RejectedThenAdmittedAgain ==
    \E a \in 1..Len(rateLog) : \E b \in 1..Len(rateLog) : \E c \in 1..Len(rateLog) :
        /\ a < b /\ b < c
        /\ rateLog[a].caller = rateLog[b].caller /\ rateLog[b].caller = rateLog[c].caller
        /\ rateLog[a].limit = 1 /\ rateLog[b].limit = 1 /\ rateLog[c].limit = 1
        /\ rateLog[a].admitted /\ ~rateLog[b].admitted /\ rateLog[c].admitted
        /\ rateLog[b].at - rateLog[a].at < RateWindow
        /\ rateLog[c].at - rateLog[a].at >= RateWindow

\* -------------------------------------------------------------- tool loop
\* The Tool Orchestrator belongs to CopilotApiGateway; its state machine is
\* modelled from the specification (Tool Orchestrator; Cancellation/timeout).

\* Whether the loop has used up its iterations.
CeilingNeverReached(iterations, ceiling) == FALSE
CeilingReached(iterations, ceiling) == iterations >= ceiling

TerminalStates == { "Done", "Aborted" }

\* The completions that run the tool loop in one run.
ToolLoopIds == { 1, 2 }

toolFrame ==
    /\ UNCHANGED << files, statsCall, readResult >>
    /\ UNCHANGED auditVars
    /\ UNCHANGED cleanupVars
    /\ UNCHANGED configVars
    /\ UNCHANGED gatewayVars
    /\ UNCHANGED modelVars
    /\ UNCHANGED concurrencyVars
    /\ UNCHANGED rateVars
    /\ UNCHANGED laterVars

\* Idle -> AwaitingModel: the canonical request is sent to the Model Invoker.
ToolLoopStarts(ceiling) ==
    /\ Len(toolLoops) < Cardinality(ToolLoopIds)
    /\ toolLoops' = Append(toolLoops,
                           [state |-> "AwaitingModel", ceiling |-> ceiling,
                            iterations |-> 0, turns |-> 0, pending |-> 0,
                            cancelled |-> FALSE, alwaysTools |-> TRUE])
    /\ toolFrame

\* The model returns: without tool-use blocks the loop is Done; with `calls`
\* of them the tools are executed, unless the ceiling is exhausted.
ModelTurnReturns(id, calls) ==
    /\ id \in 1..Len(toolLoops)
    /\ toolLoops[id].state = "AwaitingModel"
    /\ toolLoops[id].turns < MaxCeiling + 2
    /\ LET l == toolLoops[id]
       IN  toolLoops' = [toolLoops EXCEPT ![id] =
             IF calls = 0
             THEN [l EXCEPT !.state = "Done", !.turns = @ + 1, !.alwaysTools = FALSE]
             ELSE IF CeilingReached(l.iterations, l.ceiling)
             THEN [l EXCEPT !.state = "Aborted", !.turns = @ + 1]
             ELSE [l EXCEPT !.state = "ExecutingTools", !.turns = @ + 1,
                            !.iterations = @ + 1, !.pending = calls]]
    /\ toolFrame

\* One tool call resolves, with a result or with an error turned into a
\* result; a missing tool passes through Failed.  When all calls of the turn
\* have resolved the results go back to the model.
ToolCallResolves(id, missing) ==
    /\ id \in 1..Len(toolLoops)
    /\ toolLoops[id].state = "ExecutingTools"
    /\ toolLoops' = [toolLoops EXCEPT ![id].state = IF missing THEN "Failed"
                                                     ELSE IF toolLoops[id].pending = 1
                                                     THEN "AwaitingModel"
                                                     ELSE "ExecutingTools",
                                      ![id].pending = IF missing THEN @ ELSE @ - 1]
    /\ toolFrame

\* Failed: the error is reported as a tool result, and the loop goes on.
ToolErrorReported(id) ==
    /\ id \in 1..Len(toolLoops)
    /\ toolLoops[id].state = "Failed"
    /\ toolLoops' = [toolLoops EXCEPT ![id].state = IF toolLoops[id].pending = 1
                                                     THEN "AwaitingModel"
                                                     ELSE "ExecutingTools",
                                      ![id].pending = @ - 1]
    /\ toolFrame

\* Cancellation (client disconnect, request timeout) is checked at every
\* suspension point.
ToolLoopCancelled(id) ==
    /\ id \in 1..Len(toolLoops)
    /\ toolLoops[id].state \notin TerminalStates
    /\ toolLoops' = [toolLoops EXCEPT ![id].state = "Aborted", ![id].cancelled = TRUE]
    /\ toolFrame

InitTools == Constructed(DirOf({}), 0, Today * DayUnits + 1)

ModelTurns == \E id \in 1..Len(toolLoops) : \E calls \in 0..MaxToolCalls :
                    ModelTurnReturns(id, calls)
ToolsResolve == \E id \in 1..Len(toolLoops) :
                    \/ \E missing \in BOOLEAN : ToolCallResolves(id, missing)
                    \/ ToolErrorReported(id)

NextTools ==
    \/ \E ceiling \in 1..MaxCeiling : ToolLoopStarts(ceiling)
    \/ ModelTurns
    \/ ToolsResolve
    \/ \E id \in 1..Len(toolLoops) : ToolLoopCancelled(id)

\* The Model Invoker answers every request sent to it, and every tool call
\* resolves within the aggregate timeout.
SpecTools == InitTools /\ [][NextTools]_vars /\ WF_vars(ModelTurns) /\ WF_vars(ToolsResolve)

\* The loop of one completion stays within its ceiling.
WithinCeiling(l) ==
    /\ l.iterations <= l.ceiling
    /\ l.turns <= l.ceiling + 1
    /\ (l.state = "Aborted" /\ ~l.cancelled) =>
          (l.iterations = l.ceiling /\ l.turns = l.ceiling + 1)
    /\ (l.state \in TerminalStates /\ l.alwaysTools /\ ~l.cancelled) => l.state = "Aborted"

MaxServerTools == 1

\* The entries of githubCopilotApi.mcp.servers, in the order of the setting.
ServerNames == << "fs", "git" >>

\* The tool names the servers may list; one is the name of a built-in tool.
ExternalToolNames == { "search", "vscode_read_file" }

\* What a tools/list request may answer.
ServerLists ==
    UNION { [1..n -> ExternalToolNames] : n \in 0..MaxServerTools }

\* VSCodeToolProvider.getTools: the names of the built-in tools, in order.
VSCodeToolNames ==
    << "vscode_read_file", "vscode_list_files", "vscode_open_file",
       "vscode_get_diagnostics", "vscode_get_active_editor" >>

VSCodeGetTools ==
    [k \in 1..Len(VSCodeToolNames) |->
        [serverName |-> "vscode", name |-> VSCodeToolNames[k]]]

\* McpService.getAllTools: the tools of every client in the order of the
\* map, without those of a server whose tools/list request failed.
RECURSIVE GetAllTools(_, _, _)
RECURSIVE GetAllToolsNoCatch(_, _, _)
GetAllToolsNoCatch(cl, failing, lists) ==
    IF cl = << >> \/ Head(cl) \in failing THEN << >>
    ELSE [k \in 1..Len(lists[Head(cl)]) |->
             [serverName |-> Head(cl), name |-> lists[Head(cl)][k]]]
         \o GetAllToolsNoCatch(Tail(cl), failing, lists)
GetAllTools(cl, failing, lists) ==
    IF cl = << >> THEN << >>
    ELSE LET name == Head(cl)
             tools == IF name \in failing THEN << >>
                      ELSE [k \in 1..Len(lists[name]) |->
                               [serverName |-> name, name |-> lists[name][k]]]
         IN  tools \o GetAllTools(Tail(cl), failing, lists)

\* The servers of the setting that connected, in the order of the setting.
Connected(ok) == SelectSeq(ServerNames, LAMBDA n : n \in ok)

\* McpService.refreshServers: the clients are closed and forgotten; when MCP
\* is enabled every configured server is connected to (a failure is logged
\* and skipped) and the tool cache is filled from those that are connected.
RefreshServers(enabled, ok, failing, lists) ==
    /\ clients' = IF enabled THEN Connected(ok) ELSE << >>
    /\ cachedTools' = IF enabled THEN GetAllTools(Connected(ok), failing, lists)
                      ELSE cachedTools
    /\ UNCHANGED << toolListing, toolCalls >>
    /\ UNCHANGED appVars

\* The registrations the gateway merges: the externally registered tools of
\* McpService.getTools, then the built-in ones, which so take priority.
Registrations(cached) == cached \o VSCodeGetTools

\* The registrations that survive the merge: the last one of each name.
KeptIndicesAll(regs) == 1..Len(regs)
KeptIndices(regs) ==
    { i \in 1..Len(regs) : \A j \in (i + 1)..Len(regs) : regs[j].name # regs[i].name }

\* The names registered more than once: each is logged as a warning.
Collisions(regs) ==
    { regs[i].name : i \in { k \in 1..Len(regs) :
                               \E j \in 1..Len(regs) : j # k /\ regs[j].name = regs[k].name } }

MergeTools(regs) ==
    LET kept == KeptIndices(regs)
        nth(k) == CHOOSE i \in kept : Cardinality({ j \in kept : j < i }) = k - 1
    IN  [k \in 1..Cardinality(kept) |-> regs[nth(k)]]

\* GET /v1/tools: the gateway offers the merged set.
ToolsListed ==
    /\ toolListing' = [registered |-> Registrations(cachedTools),
                       tools |-> MergeTools(Registrations(cachedTools)),
                       warnings |-> Collisions(Registrations(cachedTools))]
    /\ UNCHANGED << clients, cachedTools, toolCalls >>
    /\ UNCHANGED appVars

mcpOuterFrame ==
    /\ UNCHANGED << files, statsCall, readResult >>
    /\ UNCHANGED auditVars
    /\ UNCHANGED cleanupVars
    /\ UNCHANGED configVars
    /\ UNCHANGED gatewayVars
    /\ UNCHANGED modelVars
    /\ UNCHANGED concurrencyVars
    /\ UNCHANGED rateVars
    /\ UNCHANGED toolLoops
    /\ UNCHANGED notifyVars
    /\ UNCHANGED hostVars

mcpFrame ==
    /\ mcpOuterFrame
    /\ UNCHANGED mcpRunVars

InitMcp == Constructed(DirOf({}), 0, Today * DayUnits + 1)

NextMcp ==
    \/ \E enabled \in BOOLEAN : \E ok \in SUBSET SeqSet(ServerNames) :
          \E failing \in SUBSET ok : \E lists \in [ok \ failing -> ServerLists] :
              RefreshServers(enabled, ok, failing, lists) /\ mcpFrame
    \/ ToolsListed /\ mcpFrame

SpecMcp == InitMcp /\ [][NextMcp]_vars

\* ------------------------------------------- refreshServers, one at a time
\* Every call of refreshServers runs to its end before the next begins; what
\* it met is kept for the properties below.
RefreshCompletes(enabled, ok, failing, lists) ==
    /\ RefreshServers(enabled, ok, failing, lists)
    /\ lastRefresh' = [op |-> "refreshed", enabled |-> enabled, ok |-> ok,
                       failing |-> failing, lists |-> lists]
    /\ UNCHANGED mcpStepVars

NextMcpRefresh ==
    \E enabled \in BOOLEAN : \E ok \in SUBSET SeqSet(ServerNames) :
        \E failing \in SUBSET ok : \E lists \in [ok \ failing -> ServerLists] :
            RefreshCompletes(enabled, ok, failing, lists) /\ mcpOuterFrame

SpecMcpRefresh == InitMcp /\ [][NextMcpRefresh]_vars

\* McpService.getConnectedServers
GetConnectedServers == SeqSet(clients)

\* C22: after every completed refreshServers, also one that finds MCP
\* disabled, every tool of getTools belongs to a server of
\* getConnectedServers.
C22_CachedToolsConnected ==
    lastRefresh.op = "refreshed" =>
        \A k \in 1..Len(cachedTools) : cachedTools[k].serverName \in GetConnectedServers

\* C24: after refreshServers every configured server that connected and
\* listed its tools is in getConnectedServers and all its tools are in
\* getTools, whatever happened to the other servers.
C24_FailuresIsolated ==
    (lastRefresh.op = "refreshed" /\ lastRefresh.enabled) =>
        \A n \in lastRefresh.ok \ lastRefresh.failing :
            /\ n \in GetConnectedServers
            /\ \A k \in 1..Len(lastRefresh.lists[n]) :
                  [serverName |-> n, name |-> lastRefresh.lists[n][k]] \in SeqSet(cachedTools)

\* C24 witness: "fs" connected and failed to list its tools, "git" connected
\* and listed one: "git" is connected and its tool is cached.
C24_OneFailedOtherListed ==
    /\ lastRefresh.op = "refreshed" /\ lastRefresh.enabled
    /\ lastRefresh.ok = { "fs", "git" } /\ lastRefresh.failing = { "fs" }
    /\ Len(lastRefresh.lists["git"]) = 1
    /\ "git" \in GetConnectedServers
    /\ cachedTools = << [serverName |-> "git", name |-> lastRefresh.lists["git"][1]] >>

\* The index of the last registration of a name.
LastIndexOf(regs, name) ==
    CHOOSE i \in 1..Len(regs) :
        /\ regs[i].name = name
        /\ \A j \in (i + 1)..Len(regs) : regs[j].name # name

MaxBuiltinCalls == 2

\* The tools the README lists under "Built-in VS Code Tools".
ReadmeBuiltinTools ==
    { "vscode_read_file", "vscode_list_files", "vscode_open_file",
      "vscode_get_diagnostics", "vscode_get_active_editor" }

\* The names callTool is called with: the advertised ones, the name of a tool
\* of an MCP server, and a name that only looks like a built-in one.
CallNames == SeqSet(VSCodeToolNames) \cup { "search", "vscode_write_file" }

\* What the caller passes as args.
ArgKinds == { "object", "undefined" }

\* The switch of callTool: the private method a name is dispatched to.
DispatchDefaultsToRead(name) ==
    CASE name = "vscode_read_file" -> "readFile"
      [] name = "vscode_list_files" -> "listFiles"
      [] name = "vscode_open_file" -> "openFile"
      [] name = "vscode_get_diagnostics" -> "getDiagnostics"
      [] name = "vscode_get_active_editor" -> "getActiveEditor"
      [] OTHER -> "readFile"
Dispatch(name) ==
    CASE name = "vscode_read_file" -> "readFile"
      [] name = "vscode_list_files" -> "listFiles"
      [] name = "vscode_open_file" -> "openFile"
      [] name = "vscode_get_diagnostics" -> "getDiagnostics"
      [] name = "vscode_get_active_editor" -> "getActiveEditor"
      [] OTHER -> "default"

\* The cases whose call reads a property of args before the method runs.
ReadsArgs(method) == method \in { "readFile", "listFiles", "openFile", "getDiagnostics" }

\* callTool(name, args): the default case throws 'Unknown tool'; a case that
\* reads a property of an undefined args throws a TypeError; otherwise the
\* method runs and performs its workspace operation.
CallTool(name, args) ==
    /\ Len(toolCalls) < MaxBuiltinCalls
    /\ LET method == Dispatch(name)
           outcome == IF method = "default"
                      THEN [error |-> "Unknown tool", op |-> "none"]
                      ELSE IF ReadsArgs(method) /\ args = "undefined"
                      THEN [error |-> "TypeError", op |-> "none"]
                      ELSE [error |-> "none", op |-> method]
       IN  toolCalls' = Append(toolCalls,
                               [name |-> name, args |-> args,
                                error |-> outcome.error, op |-> outcome.op])
    /\ UNCHANGED mcpVars
    /\ UNCHANGED appVars

InitBuiltin == Constructed(DirOf({}), 0, Today * DayUnits + 1)

NextBuiltin ==
    \E name \in CallNames : \E args \in ArgKinds : CallTool(name, args) /\ mcpFrame

SpecBuiltin == InitBuiltin /\ [][NextBuiltin]_vars

\* C16: the built-in provider advertises exactly the five tools of the
\* README, each once, and callTool dispatches exactly these names: a call
\* with an advertised name never fails with 'Unknown tool' and, given an args
\* object, performs a workspace operation of its own, and a call with any
\* other name fails with 'Unknown tool' without a workspace operation.
C16_BuiltinToolsExact ==
    /\ SeqSet(VSCodeToolNames) = ReadmeBuiltinTools
    /\ Cardinality(SeqSet(VSCodeToolNames)) = Len(VSCodeToolNames)
    /\ \A i \in 1..Len(toolCalls) :
          LET c == toolCalls[i]
          IN  IF c.name \in SeqSet(VSCodeToolNames)
              THEN /\ c.error # "Unknown tool"
                   /\ c.args = "object" => (c.error = "none" /\ c.op # "none")
              ELSE c.error = "Unknown tool" /\ c.op = "none"
    /\ \A i, j \in 1..Len(toolCalls) :
          (/\ toolCalls[i].op # "none" /\ toolCalls[j].op # "none"
           /\ toolCalls[i].name # toolCalls[j].name) => toolCalls[i].op # toolCalls[j].op

\* C16 witness: vscode_write_file was refused as an unknown tool without a
\* workspace operation, and vscode_open_file opened a file.
C16_UnknownRefusedKnownRun ==
    /\ \E i \in 1..Len(toolCalls) :
          /\ toolCalls[i].name = "vscode_write_file"
          /\ toolCalls[i].error = "Unknown tool" /\ toolCalls[i].op = "none"
    /\ \E i \in 1..Len(toolCalls) :
          /\ toolCalls[i].name = "vscode_open_file"
          /\ toolCalls[i].error = "none" /\ toolCalls[i].op = "openFile"

\* ------------------------------------------------------------- app runs
\* AppsPanel's model picker and AppService.executeApp, as the code runs them.

\* The largest number of app runs.
MaxAppRuns == 2

\* The chat models the host may offer.
LmCatalog ==
    { [id |-> "gpt-4o", vendor |-> "copilot"],
      [id |-> "claude-sonnet", vendor |-> "copilot"],
      [id |-> "llama3", vendor |-> "ollama"] }

\* The lists vscode.lm.selectChatModels({}) may answer: the models the host
\* has, each once, in some order.
LmLists ==
    { l \in UNION { [1..n -> LmCatalog] : n \in 0..Cardinality(LmCatalog) } :
        \A i, j \in 1..Len(l) : i # j => l[i] # l[j] }

\* vscode.lm.selectChatModels({ vendor }).
SelectChatModels(models, vendor) == SelectSeq(models, LAMBDA m : m.vendor = vendor)

\* The host installs or removes language models.
LmModelsChange(l) ==
    /\ lmModels' = l
    /\ UNCHANGED << pickerOptions, appRuns >>

\* AppsPanel 'getAvailableModels': every model of the host, of any vendor, is
\* posted to the picker, which offers their ids beside 'auto'.
GetAvailableModels ==
    /\ pickerOptions' = [k \in 1..Len(lmModels) |-> lmModels[k].id]
    /\ UNCHANGED << lmModels, appRuns >>

\* AppService.invokeLLM: the first Copilot model of the host.
InvokeLLM(models, selected) ==
    IF SelectChatModels(models, "copilot") = << >> THEN "none"
    ELSE SelectChatModels(models, "copilot")[1].id

\* AppsPanel 'executeApp' -> AppService.executeApp(app, inputs): the run
\* fails when Copilot has no model; otherwise the prompts are sent by
\* invokeLLM, which is not passed the inputs.
ExecuteApp(selected) ==
    /\ Len(appRuns) < MaxAppRuns
    /\ selected \in { "auto" } \cup SeqSet(pickerOptions)
    /\ LET available == SelectChatModels(lmModels, "copilot") # << >>
           sentTo == IF available THEN InvokeLLM(lmModels, selected) ELSE "none"
       IN  appRuns' = Append(appRuns, [selected |-> selected, sentTo |-> sentTo,
                                      success |-> sentTo # "none"])
    /\ UNCHANGED << lmModels, pickerOptions >>

appFrame ==
    /\ mcpFrame
    /\ UNCHANGED mcpVars
    /\ UNCHANGED toolCalls

InitApps == Constructed(DirOf({}), 0, Today * DayUnits + 1)

NextApps ==
    \/ \E l \in LmLists : LmModelsChange(l) /\ appFrame
    \/ GetAvailableModels /\ appFrame
    \/ \E selected \in { "auto" } \cup { m.id : m \in LmCatalog } :
          ExecuteApp(selected) /\ appFrame

SpecApps == InitApps /\ [][NextApps]_vars

\* C17: an app run uses the language model the user selected: when a model
\* id other than 'auto' is chosen in the picker, the request of that run is
\* sent to that model and to no other.
C17_RunUsesSelectedModel ==
    \A i \in 1..Len(appRuns) :
        (appRuns[i].selected # "auto" /\ appRuns[i].sentTo # "none") =>
            appRuns[i].sentTo = appRuns[i].selected

\* ------------------------------------------------------- paging the log
\* getLogEntries over logs of up to fifteen day partitions.

\* How many days, ending today, the log of an earlier session covers.  The
\* log of one day holds every kind of line in today's partition, the longer
\* ones one entry a day; audit-backup.jsonl, where it exists, is a copy of
\* yesterday's partition.
LogLengths == { 0, 1, 2, 14, 15 }

\* The partition of a day.
DayPartition(day) == PartitionName(<< DayName(day) >>)

InitPages ==
    \E k \in LogLengths :
    \E lines \in SeqsUpTo(OldLines, MaxOldLines) :
    \E others \in SUBSET { << "audit-", "backup", ".jsonl" >> } :
        /\ k # 1 => lines = << OldLine(Today) >>
        /\ Constructed([f \in { DayPartition(d) : d \in (Today - k + 1)..Today } \cup others |->
                           IF f = TodayPartition THEN lines
                           ELSE IF f \in others THEN << OldLine(Today - 1) >>
                           ELSE << OldLine(FileDate(f) \div DayUnits) >>],
                       0, Today * DayUnits + 1)

NextPages ==
    \E page \in Pages : \E pageSize \in PageSizes :
    \E unreadable \in { {}, { TodayPartition }, { DayPartition(Today - 1) } } :
        GetLogEntries(page, pageSize, unreadable)

SpecPages == InitPages /\ [][NextPages]_vars

\* The partitions of the log: the files named audit-<ISO date>.jsonl.
Partitions(fs) ==
    { f \in DOMAIN fs : \E k \in DOMAIN CalendarNames : f = PartitionName(<< CalendarNames[k] >>) }

\* The files named audit-*.jsonl.
AuditFiles(fs) == { f \in DOMAIN fs : StartsWithAudit(f) /\ EndsWithJsonl(f) }

\* The files the scan covers: of the files named audit-*.jsonl the fourteen
\* last in the order of their names.
RecentFiles(fs) ==
    LET valid == AuditFiles(fs)
    IN  { f \in valid :
            Cardinality({ g \in valid : StemRank(g) > StemRank(f) }) < MaxFilesRead }

\* The well-formed entries of the files `scope`, file by file.
RECURSIVE ScopeEntries(_, _)
ScopeEntries(fs, scope) ==
    IF scope = {} THEN << >>
    ELSE LET f == CHOOSE g \in scope : TRUE
             entries == WellFormed(fs[f])
         IN  [k \in 1..Len(entries) |-> entries[k][2]]
             \o ScopeEntries(fs, scope \ { f })

\* The last result of getLogEntries is the page it was asked for of the
\* well-formed entries of the files `scope` in descending order of time:
\* total counts them all; the page has the length the paging leaves it; the
\* entry at position pos has as many newer entries as the order allows; and
\* where the page holds every entry of one time, it holds each of them as
\* often as the files do.
IsPageOf(fs, scope) ==
    LET r == readResult
        start == (r.page - 1) * r.pageSize
        all == ScopeEntries(fs, scope)
        total == Len(all)
        rest == IF total > start THEN total - start ELSE 0
        time(e) == TimestampGetTime(e.timestamp)
        newer(t) == Len(SelectSeq(all, LAMBDA e : time(e) > t))
        at(t) == Len(SelectSeq(all, LAMBDA e : time(e) = t))
    IN  /\ r.total = total
        /\ Len(r.entries) = IF rest < r.pageSize THEN rest ELSE r.pageSize
        /\ \A k \in 1..Len(r.entries) :
              LET pos == start + k - 1
                  t == time(r.entries[k])
              IN  /\ newer(t) <= pos /\ pos < newer(t) + at(t)
                  /\ (newer(t) >= start /\ newer(t) + at(t) <= start + Len(r.entries)) =>
                        Len(SelectSeq(r.entries, LAMBDA e : e = r.entries[k]))
                          = Len(SelectSeq(all, LAMBDA e : e = r.entries[k]))

C19_OneRecordPerDay ==
    readResult.op = "dailyStats" =>
        LET n == readResult.lastDays
            today == now \div DayUnits
        IN  /\ Len(readResult.stats) = n
            /\ \A k \in 1..Len(readResult.stats) :
                  LET day == today - n + k
                  IN  /\ readResult.stats[k].date = DayName(day)
                      /\ DayPartition(day) \notin DOMAIN files =>
                            readResult.stats[k] = ZeroStats(DayName(day))

\* ------------------------------------------------- the start notification
\* activate's onDidChangeStatus handler, as the code runs it: an async
\* function that awaits the status bar, the status and, when it shows the
\* notification, the user's answer, and only then assigns wasRunning.

\* The largest number of status-change events the gateway fires.
MaxStatusEvents == 3

notifyFrame ==
    /\ UNCHANGED << files, statsCall, readResult >>
    /\ UNCHANGED auditVars
    /\ UNCHANGED cleanupVars
    /\ UNCHANGED configVars
    /\ UNCHANGED gatewayVars
    /\ UNCHANGED modelVars
    /\ UNCHANGED concurrencyVars
    /\ UNCHANGED rateVars
    /\ UNCHANGED toolLoops
    /\ UNCHANGED mcpVars
    /\ UNCHANGED toolCalls
    /\ UNCHANGED appVars
    /\ UNCHANGED hostVars
    /\ UNCHANGED mcpRunVars

\* The gateway fires onDidChangeStatus: the handler is called and runs up to
\* its first await, of updateStatusBar.
StatusEventFires ==
    /\ statusEvents < MaxStatusEvents
    /\ statusEvents' = statusEvents + 1
    /\ handlers' = Append(handlers, [pc |-> "updateStatusBar", status |-> FALSE])

\* The server goes from stopped to running.
ServerStarts ==
    /\ ~running
    /\ running' = TRUE
    /\ starts' = starts + 1
    /\ StatusEventFires
    /\ UNCHANGED << showNotifications, wasRunning, shown >>
    /\ notifyFrame

\* The server stops.
ServerStops ==
    /\ running
    /\ running' = FALSE
    /\ StatusEventFires
    /\ UNCHANGED << starts, showNotifications, wasRunning, shown >>
    /\ notifyFrame

\* The status changes otherwise (a setting, a counter): the server stays as
\* it is.
StatusChanges ==
    /\ StatusEventFires
    /\ UNCHANGED << running, starts, showNotifications, wasRunning, shown >>
    /\ notifyFrame

\* The user switches githubCopilotApi.server.showNotifications, while the
\* server is stopped: a start has notifications on or off throughout.
SetShowNotifications(value) ==
    /\ ~running
    /\ showNotifications # value
    /\ showNotifications' = value
    /\ UNCHANGED << running, starts, wasRunning, handlers, shown, statusEvents >>
    /\ notifyFrame

\* The sequence without its element at k.
Without(q, k) == SubSeq(q, 1, k - 1) \o SubSeq(q, k + 1, Len(q))

\* await updateStatusBar() resumes: the handler calls gateway.getStatus(),
\* which takes the status as it is, and awaits it.
HandlerCallsGetStatus(k) ==
    /\ k \in 1..Len(handlers)
    /\ handlers[k].pc = "updateStatusBar"
    /\ handlers' = [handlers EXCEPT ![k] = [pc |-> "getStatus", status |-> running]]
    /\ UNCHANGED << running, starts, showNotifications, wasRunning, shown, statusEvents >>
    /\ notifyFrame

\* Whether the handler goes on to the notification.
IsStart(statusRunning, was) == statusRunning /\ ~was

\* await gateway.getStatus() resumes: when the status is running and
\* wasRunning is not, and notifications are on, the notification is shown and
\* the handler awaits the user's answer; otherwise wasRunning is assigned and
\* the handler ends.
HandlerGotStatus(k) ==
    /\ k \in 1..Len(handlers)
    /\ handlers[k].pc = "getStatus"
    /\ IF IsStart(handlers[k].status, wasRunning) /\ showNotifications
       THEN /\ shown' = Append(shown, starts)
            /\ handlers' = [handlers EXCEPT ![k].pc = "showInformationMessage"]
            /\ UNCHANGED wasRunning
       ELSE /\ wasRunning' = handlers[k].status
            /\ handlers' = Without(handlers, k)
            /\ UNCHANGED shown
    /\ UNCHANGED << running, starts, showNotifications, statusEvents >>
    /\ notifyFrame

\* The user answers or dismisses the notification: wasRunning is assigned the
\* status the handler read, and the handler ends.
NotificationAnswered(k) ==
    /\ k \in 1..Len(handlers)
    /\ handlers[k].pc = "showInformationMessage"
    /\ wasRunning' = handlers[k].status
    /\ handlers' = Without(handlers, k)
    /\ UNCHANGED << running, starts, showNotifications, shown, statusEvents >>
    /\ notifyFrame

InitNotify == Constructed(DirOf({}), 0, Today * DayUnits + 1)

NextNotify ==
    \/ ServerStarts
    \/ ServerStops
    \/ StatusChanges
    \/ \E value \in BOOLEAN : SetShowNotifications(value)
    \/ \E k \in 1..Len(handlers) : HandlerCallsGetStatus(k)
    \/ \E k \in 1..Len(handlers) : HandlerGotStatus(k)
    \/ \E k \in 1..Len(handlers) : NotificationAnswered(k)

SpecNotify == InitNotify /\ [][NextNotify]_vars

\* C20: with showNotifications on, each transition of the server from
\* stopped to running shows the 'server started' notification exactly once and
\* events fired while the server stays running show none, for any interleaving
\* of the handlers: no start has two notifications, and once every handler
\* has ended a server that is running has had the notification of its start.
C20_NotifiedOncePerStart ==
    /\ \A e \in 1..starts :
          Cardinality({ i \in 1..Len(shown) : shown[i] = e }) <= 1
    /\ (handlers = << >> /\ running /\ showNotifications) =>
          \E i \in 1..Len(shown) : shown[i] = starts

\* ------------------------------------------------- vscode_get_diagnostics
\* VSCodeToolProvider.getDiagnostics (src/src/services/VSCodeToolProvider.ts,
\* lines 145-174).  A diagnostic is its severity; the files are numbered in
\* the order in which the host lists them.

\* The largest number of files the host has diagnostics for.
MaxDiagFiles == 3

\* getDiagnostics(max: number = 50).
DefaultMax == 50

\* vscode.DiagnosticSeverity[d.severity]
SeverityName(severity) ==
    CASE severity = 0 -> "Error"
      [] severity = 1 -> "Warning"
      [] severity = 2 -> "Information"
      [] OTHER -> "Hint"

\* The diagnostics one file may have: none, a few, and one short of the default.
FileDiagnostics ==
    { << >>, << 0 >>, << 1, 0 >>, << 0, 1, 2 >>, [k \in 1..(DefaultMax - 1) |-> 3] }

DiagnosticLists == SeqsUpTo(FileDiagnostics, MaxDiagFiles)

\* args.max as the tool call gives it: no element when it is undefined.
MaxArgs == { << >>, << 0 >>, << 1 >>, << 2 >>, << 3 >> }

\* The loop of lines 150-171 from file k on.
RECURSIVE DiagnosticsLoop(_, _, _, _, _)
DiagnosticsLoop(all, k, max, results, count) ==
    IF k > Len(all) THEN results
    ELSE IF Len(all[k]) = 0 THEN DiagnosticsLoop(all, k + 1, max, results, count)
    ELSE LET fileDiagnostics == [d \in 1..Len(all[k]) |-> SeverityName(all[k][d])]
             pushed == Append(results, [file |-> k, diagnostics |-> fileDiagnostics])
         IN  IF count + Len(fileDiagnostics) >= max THEN pushed
             ELSE DiagnosticsLoop(all, k + 1, max, pushed, count + Len(fileDiagnostics))

\* getDiagnostics(args.max) is called and returns.
GetDiagnostics(args) ==
    LET max == IF args = << >> THEN DefaultMax ELSE args[1]
    IN  /\ diagnosticsResult' =
              [op |-> "getDiagnostics", args |-> args,
               diagnostics |-> DiagnosticsLoop(allDiagnostics, 1, max, << >>, 0)]
        /\ UNCHANGED allDiagnostics

hostFrame ==
    /\ UNCHANGED << files, statsCall, readResult >>
    /\ UNCHANGED auditVars
    /\ UNCHANGED cleanupVars
    /\ UNCHANGED configVars
    /\ UNCHANGED gatewayVars
    /\ UNCHANGED modelVars
    /\ UNCHANGED concurrencyVars
    /\ UNCHANGED rateVars
    /\ UNCHANGED toolLoops
    /\ UNCHANGED mcpVars
    /\ UNCHANGED toolCalls
    /\ UNCHANGED appVars
    /\ UNCHANGED notifyVars
    /\ UNCHANGED mcpRunVars

\* The language services publish diagnostics: the host's list changes.
DiagnosticsChange(all) ==
    /\ allDiagnostics' = all
    /\ UNCHANGED diagnosticsResult

InitDiagnostics == Constructed(DirOf({}), 0, Today * DayUnits + 1)

diagFrame ==
    /\ hostFrame
    /\ UNCHANGED << webviewVars, dashVars, appsPanelVars, activationVars >>

NextDiagnostics ==
    \/ /\ diagnosticsResult.op = "none"    \* the list is settled before the calls
       /\ \E all \in DiagnosticLists : DiagnosticsChange(all) /\ diagFrame
    \/ \E args \in MaxArgs : GetDiagnostics(args) /\ diagFrame

SpecDiagnostics == InitDiagnostics /\ [][NextDiagnostics]_vars

\* The number of diagnostics of a result, over all its files.
RECURSIVE CountDiagnostics(_)
CountDiagnostics(results) ==
    IF results = << >> THEN 0
    ELSE Len(Head(results).diagnostics) + CountDiagnostics(Tail(results))

\* C21: vscode_get_diagnostics returns at most max diagnostics, at most 50
\* when max is not given, counted over all files of the result.
C21_AtMostMaxDiagnostics ==
    diagnosticsResult.op = "getDiagnostics" =>
        CountDiagnostics(diagnosticsResult.diagnostics)
            <= (IF diagnosticsResult.args = << >> THEN DefaultMax
                ELSE diagnosticsResult.args[1])

\* --------------------------------------- refreshServers, await by await
\* McpService with its Client objects (src/unnamed/part_003, lines 1580-1719).
\* A call of refreshServers runs from one await to the next in one step;
\* calls overlap when a second one begins while the first is at an await.
\* this.clients is a Map: its entries keep their order of insertion, clear()
\* empties every entry in place, and an iterator that is under way goes on
\* behind the emptied entries, so it meets what is set afterwards.

\* The largest number of calls of refreshServers.
MaxRefreshCalls == 2

EmptyEntry == [name |-> "none", id |-> 0]

\* The index of the first entry after `at` that is not emptied (0: none).
NextLive(entries, at) ==
    LET live == { k \in (at + 1)..Len(entries) : entries[k] # EmptyEntry }
    IN  IF live = {} THEN 0 ELSE CHOOSE k \in live : \A j \in live : k <= j

\* Map.prototype.clear
MapClear(entries) == [k \in 1..Len(entries) |-> EmptyEntry]

\* Map.prototype.set: the value of a key that is present is replaced in place.
MapSet(entries, name, id) ==
    IF \E k \in 1..Len(entries) : entries[k].name = name
    THEN [k \in 1..Len(entries) |->
             IF entries[k].name = name THEN [name |-> name, id |-> id] ELSE entries[k]]
    ELSE Append(entries, [name |-> name, id |-> id])

\* Array.from(this.clients.keys()), as a sequence.
RECURSIVE MapKeys(_)
MapKeys(entries) ==
    IF entries = << >> THEN << >>
    ELSE (IF Head(entries) = EmptyEntry THEN << >> ELSE << Head(entries).name >>)
         \o MapKeys(Tail(entries))

\* this.clients.values(), as a set.
MapValues(entries) ==
    { entries[k].id : k \in { j \in 1..Len(entries) : entries[j] # EmptyEntry } }

\* The service as the steps below read and write it.
McpState ==
    [entries |-> clientEntries, open |-> openClients, made |-> clientsMade,
     cached |-> cachedTools]

RunDone == [pc |-> "done", at |-> 0, srv |-> 0, name |-> "none", client |-> 0,
            tools |-> << >>]

\* getAllTools, lines 1650-1667, from the entry after `at` on: it awaits the
\* tools/list request to the next client, or returns and the cache is assigned
\* (line 1615).
ListLoop(st, at, tools) ==
    LET k == NextLive(st.entries, at)
    IN  IF k # 0
        THEN [st |-> st,
              run |-> [pc |-> "list", at |-> k, srv |-> 0, name |-> st.entries[k].name,
                       client |-> st.entries[k].id, tools |-> tools]]
        ELSE [st |-> [st EXCEPT !.cached = tools], run |-> RunDone]

\* The loop of lines 1605-1612 from server `srv` on: connectToServer makes a
\* Client and awaits its connect (lines 1640-1645); after the last server the
\* tool cache is filled.
ConnectLoop(st, srv) ==
    IF srv > Len(ServerNames) THEN ListLoop(st, 0, << >>)
    ELSE [st |-> [st EXCEPT !.made = Append(@, ServerNames[srv])],
          run |-> [pc |-> "connect", at |-> 0, srv |-> srv, name |-> ServerNames[srv],
                   client |-> Len(st.made) + 1, tools |-> << >>]]

\* The loop of lines 1593-1595 from the entry after `at` on: it calls close()
\* on the next client and awaits it; after the last one the map is cleared
\* (line 1596), the setting is read, and the call returns when MCP is disabled
\* (lines 1598-1603).
CloseLoop(st, at, enabled) ==
    LET k == NextLive(st.entries, at)
    IN  IF k # 0
        THEN [st |-> [st EXCEPT !.open = @ \ { st.entries[k].id }],
              run |-> [pc |-> "close", at |-> k, srv |-> 0, name |-> st.entries[k].name,
                       client |-> st.entries[k].id, tools |-> << >>]]
        ELSE LET cleared == [st EXCEPT !.entries = MapClear(@)]
             IN  IF enabled THEN ConnectLoop(cleared, 1)
                 ELSE [st |-> cleared, run |-> RunDone]

\* The service after a step, with the call `i` now at `r.run` (i = 0: a new call).
RunStepped(i, r) ==
    /\ clientEntries' = r.st.entries
    /\ clients' = MapKeys(r.st.entries)
    /\ openClients' = r.st.open
    /\ clientsMade' = r.st.made
    /\ cachedTools' = r.st.cached
    /\ refreshRuns' =
          IF i = 0
          THEN (IF r.run = RunDone THEN refreshRuns ELSE Append(refreshRuns, r.run))
          ELSE (IF r.run = RunDone THEN Without(refreshRuns, i)
                ELSE [refreshRuns EXCEPT ![i] = r.run])
    /\ UNCHANGED << lastRefresh, toolListing, toolCalls >>
    /\ UNCHANGED appVars
    /\ mcpOuterFrame

\* refreshServers is called (line 1591) and runs to its first await.
RefreshCalled(enabled) ==
    /\ refreshCalls < MaxRefreshCalls
    /\ refreshCalls' = refreshCalls + 1
    /\ RunStepped(0, CloseLoop(McpState, 0, enabled))

\* The close() a call awaits settles (line 1594); a rejection ends the call.
CloseSettles(i, ok, enabled) ==
    /\ refreshRuns[i].pc = "close"
    /\ UNCHANGED refreshCalls
    /\ IF ok THEN RunStepped(i, CloseLoop(McpState, refreshRuns[i].at, enabled))
       ELSE RunStepped(i, [st |-> McpState, run |-> RunDone])

\* The connect a call awaits settles (line 1645): the client is put in the
\* map (line 1646), or the failure is caught (lines 1608-1610).
ConnectSettles(i, ok) ==
    /\ refreshRuns[i].pc = "connect"
    /\ UNCHANGED refreshCalls
    /\ LET run == refreshRuns[i]
           st == IF ok
                 THEN [McpState EXCEPT !.open = @ \cup { run.client },
                                       !.entries = MapSet(@, run.name, run.client)]
                 ELSE McpState
       IN  RunStepped(i, ConnectLoop(st, run.srv + 1))

\* The tools/list request a call awaits settles (line 1653); a client that
\* was closed meanwhile does not answer.
ListSettles(i, ok, list) ==
    /\ refreshRuns[i].pc = "list"
    /\ ok => refreshRuns[i].client \in openClients
    /\ UNCHANGED refreshCalls
    /\ LET run == refreshRuns[i]
           tools == IF ok
                    THEN run.tools \o [k \in 1..Len(list) |->
                                          [serverName |-> run.name, name |-> list[k]]]
                    ELSE run.tools
       IN  RunStepped(i, ListLoop(McpState, run.at, tools))

\* McpService.dispose, lines 1711-1719: close() is called on every client of
\* the map and the map is cleared.
McpDispose ==
    /\ clientEntries # << >>
    /\ UNCHANGED << refreshCalls, refreshRuns >>
    /\ RunStepped(0, [st |-> [McpState EXCEPT !.open = @ \ MapValues(clientEntries),
                                              !.entries = MapClear(@)],
                      run |-> RunDone])

InitMcpRuns == Constructed(DirOf({}), 0, Today * DayUnits + 1)

NextMcpRuns ==
    \/ \E enabled \in BOOLEAN : RefreshCalled(enabled)
    \/ \E i \in 1..Len(refreshRuns) : \E ok, enabled \in BOOLEAN :
          CloseSettles(i, ok, enabled)
    \/ \E i \in 1..Len(refreshRuns) : \E ok \in BOOLEAN : ConnectSettles(i, ok)
    \/ \E i \in 1..Len(refreshRuns) : \E ok \in BOOLEAN : \E list \in ServerLists :
          ListSettles(i, ok, list)
    \/ McpDispose

SpecMcpRuns == InitMcpRuns /\ [][NextMcpRuns]_vars

\* C23: for any interleaving of refreshServers calls and dispose, every
\* client that is connected is held in the clients map or was closed, and
\* each configured server has at most one open client.
C23_NoClientLeaked ==
    /\ openClients \subseteq MapValues(clientEntries)
    /\ \A n \in SeqSet(ServerNames) :
          Cardinality({ id \in openClients : clientsMade[id] = n }) <= 1

\* ------------------------------------------------ order within a partition
\* The caller hands out the request ids in the order of its logRequest calls.
LoggedThisSession(line) == line[1] = "object" /\ line[2].requestId >= 1

\* C25: within one day partition the entries are in the order in which they
\* were passed to logRequest, across any number of flushes and for any
\* timing of the file appends.
C25_LogRequestOrderKept ==
    \A f \in DOMAIN files : \A j, k \in 1..Len(files[f]) :
        (j < k /\ LoggedThisSession(files[f][j]) /\ LoggedThisSession(files[f][k])) =>
            files[f][j][2].requestId < files[f][k][2].requestId

\* ---------------------------------------------------- the dashboard panel
\* CopilotPanel.createOrShow (src/unnamed/part_003, lines 38-78).  The host
\* throws 'Webview is disposed' when a disposed panel is revealed or its
\* html is written; such a call is kept in panelFaults.

\* The largest number of calls of createOrShow.
MaxCreateOrShow == 4

NewPanel(kind, listening) == [kind |-> kind, disposed |-> FALSE, listening |-> listening]

dashFrame ==
    /\ hostFrame
    /\ UNCHANGED << diagVars, appsPanelVars, activationVars >>

\* createOrShow is called and runs up to its await of getPanelHtml: lines
\* 41-46 when currentPanel is set, lines 48-61 when it is not.
CreateOrShow ==
    /\ createOrShowCalls < MaxCreateOrShow
    /\ createOrShowCalls' = createOrShowCalls + 1
    /\ IF currentPanel # 0
       THEN /\ IF webviewPanels[currentPanel].disposed
               THEN /\ panelFaults' = panelFaults \cup
                                        { [op |-> "reveal", panel |-> currentPanel] }
                    /\ UNCHANGED panelCalls
               ELSE /\ panelCalls' = Append(panelCalls,
                                            [pc |-> "shown", panel |-> currentPanel])
                    /\ UNCHANGED panelFaults
            /\ UNCHANGED << webviewPanels, currentPanel >>
       ELSE /\ webviewPanels' = Append(webviewPanels, NewPanel("dashboard", FALSE))
            /\ currentPanel' = Len(webviewPanels) + 1
            /\ panelCalls' = Append(panelCalls,
                                    [pc |-> "created", panel |-> Len(webviewPanels) + 1])
            /\ UNCHANGED panelFaults
    /\ dashFrame

\* getPanelHtml resolves and the call writes the html to the webview it
\* named before the await (lines 44 and 61); the call that created the panel
\* then registers its listeners (lines 63-77).
PanelHtmlSettles(i) ==
    /\ i \in 1..Len(panelCalls)
    /\ LET call == panelCalls[i]
       IN  IF webviewPanels[call.panel].disposed
           THEN /\ panelFaults' = panelFaults \cup { [op |-> "html", panel |-> call.panel] }
                /\ UNCHANGED webviewPanels
           ELSE /\ webviewPanels' =
                      IF call.pc = "created"
                      THEN [webviewPanels EXCEPT ![call.panel].listening = TRUE]
                      ELSE webviewPanels
                /\ UNCHANGED panelFaults
    /\ panelCalls' = Without(panelCalls, i)
    /\ UNCHANGED << currentPanel, createOrShowCalls >>
    /\ dashFrame

\* The user closes the dashboard tab: the panel is disposed and the listener
\* of lines 71-77 runs, if it is registered.
DashboardDisposed(p) ==
    /\ p \in 1..Len(webviewPanels)
    /\ ~webviewPanels[p].disposed
    /\ webviewPanels' = [webviewPanels EXCEPT ![p].disposed = TRUE]
    /\ currentPanel' = IF webviewPanels[p].listening THEN 0 ELSE currentPanel
    /\ UNCHANGED << panelFaults, panelCalls, createOrShowCalls >>
    /\ dashFrame

InitDashboard == Constructed(DirOf({}), 0, Today * DayUnits + 1)

NextDashboard ==
    \/ CreateOrShow
    \/ \E i \in 1..Len(panelCalls) : PanelHtmlSettles(i)
    \/ \E p \in 1..Len(webviewPanels) : DashboardDisposed(p)

SpecDashboard == InitDashboard /\ [][NextDashboard]_vars

\* The panels of a kind that are not disposed.
LivePanels(kind) ==
    { p \in 1..Len(webviewPanels) :
         webviewPanels[p].kind = kind /\ ~webviewPanels[p].disposed }

\* C26: at most one dashboard panel exists, currentPanel refers to it exactly
\* while it is not disposed, also when it is disposed while createOrShow
\* awaits the html, and createOrShow never reveals or writes to a disposed
\* panel.
C26_OneLiveDashboard ==
    /\ Cardinality(LivePanels("dashboard")) <= 1
    /\ currentPanel # 0 => currentPanel \in LivePanels("dashboard")
    /\ \A p \in LivePanels("dashboard") : currentPanel = p
    /\ panelFaults = {}

\* ------------------------------------------------------ the Apps Hub panels
\* AppsPanel.openAppsHub and openApp (src/src/AppsPanel.ts, lines 34-120),
\* after AppsPanel.initialize.  Both run without an await.

\* The largest number of panels opened.
MaxPanels == 3

\* Two of the ids of appRegistry, and what openApp may be called with.
AppRegistryIds == { "codeReview", "testCaseGenerator" }
OpenAppIds == AppRegistryIds \cup { "unknown" }

\* getAppById(appId) is defined.
GetAppById(appId) == appId \in AppRegistryIds

\* AppsPanel.appPanels.set(appId, panel)
AppPanelsSet(map, appId, panel) ==
    [a \in DOMAIN map \cup { appId } |-> IF a = appId THEN panel ELSE map[a]]

\* AppsPanel.appPanels.delete(appId)
AppPanelsDeleteNothing(map, appId) == map
AppPanelsDelete(map, appId) == [a \in DOMAIN map \ { appId } |-> map[a]]

appsPanelFrame ==
    /\ hostFrame
    /\ UNCHANGED << diagVars, dashVars, activationVars >>

\* panel.reveal(column)
Reveal(panel) ==
    panelFaults' = IF webviewPanels[panel].disposed
                   THEN panelFaults \cup { [op |-> "reveal", panel |-> panel] }
                   ELSE panelFaults

\* openAppsHub, lines 34-74, as a step on the hub panel and the panels.
HubOpened ==
    IF hubPanel # 0
    THEN /\ Reveal(hubPanel)
         /\ lastOpen' = [op |-> "openAppsHub", appId |-> "none", outcome |-> "revealed"]
         /\ UNCHANGED << webviewPanels, hubPanel >>
    ELSE /\ webviewPanels' = Append(webviewPanels, NewPanel("hub", TRUE))
         /\ hubPanel' = Len(webviewPanels) + 1
         /\ lastOpen' = [op |-> "openAppsHub", appId |-> "none", outcome |-> "created"]
         /\ UNCHANGED panelFaults

OpenAppsHub ==
    /\ hubPanel = 0 => Len(webviewPanels) < MaxPanels
    /\ HubOpened
    /\ UNCHANGED appPanels
    /\ appsPanelFrame

\* openApp, lines 79-120.
OpenApp(appId) ==
    /\ (GetAppById(appId) /\ appId \notin DOMAIN appPanels) => Len(webviewPanels) < MaxPanels
    /\ IF ~GetAppById(appId)
       THEN /\ lastOpen' = [op |-> "openApp", appId |-> appId, outcome |-> "notFound"]
            /\ UNCHANGED << webviewPanels, panelFaults, appPanels >>
       ELSE IF appId \in DOMAIN appPanels
       THEN /\ Reveal(appPanels[appId])
            /\ lastOpen' = [op |-> "openApp", appId |-> appId, outcome |-> "revealed"]
            /\ UNCHANGED << webviewPanels, appPanels >>
       ELSE /\ webviewPanels' = Append(webviewPanels, NewPanel(appId, TRUE))
            /\ appPanels' = AppPanelsSet(appPanels, appId, Len(webviewPanels) + 1)
            /\ lastOpen' = [op |-> "openApp", appId |-> appId, outcome |-> "created"]
            /\ UNCHANGED panelFaults
    /\ UNCHANGED hubPanel
    /\ appsPanelFrame

\* A panel is disposed and its onDidDispose listener runs (lines 71-73 for
\* the hub, lines 114-116 for an app).
PanelDisposes(p) ==
    /\ hubPanel' = IF webviewPanels[p].kind = "hub" THEN 0 ELSE hubPanel
    /\ appPanels' = IF webviewPanels[p].kind = "hub" THEN appPanels
                    ELSE AppPanelsDelete(appPanels, webviewPanels[p].kind)

\* The user closes a tab of the Apps Hub.
AppsPanelClosed(p) ==
    /\ p \in 1..Len(webviewPanels)
    /\ ~webviewPanels[p].disposed
    /\ webviewPanels' = [webviewPanels EXCEPT ![p].disposed = TRUE]
    /\ PanelDisposes(p)
    /\ UNCHANGED << panelFaults, lastOpen >>
    /\ appsPanelFrame

\* handleAppMessage, 'goBack' (lines 458-461): the app's panel is disposed
\* and the hub is opened.
GoBack(p) ==
    /\ p \in 1..Len(webviewPanels)
    /\ ~webviewPanels[p].disposed
    /\ webviewPanels[p].kind # "hub"
    /\ hubPanel = 0 => Len(webviewPanels) < MaxPanels
    /\ LET after == [webviewPanels EXCEPT ![p].disposed = TRUE]
       IN  IF hubPanel # 0
           THEN /\ Reveal(hubPanel)
                /\ webviewPanels' = after
                /\ UNCHANGED hubPanel
                /\ lastOpen' = [op |-> "openAppsHub", appId |-> "none", outcome |-> "revealed"]
           ELSE /\ webviewPanels' = Append(after, NewPanel("hub", TRUE))
                /\ hubPanel' = Len(after) + 1
                /\ UNCHANGED panelFaults
                /\ lastOpen' = [op |-> "openAppsHub", appId |-> "none", outcome |-> "created"]
    /\ appPanels' = AppPanelsDelete(appPanels, webviewPanels[p].kind)
    /\ appsPanelFrame

InitAppsPanel == Constructed(DirOf({}), 0, Today * DayUnits + 1)

NextAppsPanel ==
    \/ OpenAppsHub
    \/ \E appId \in OpenAppIds : OpenApp(appId)
    \/ \E p \in 1..Len(webviewPanels) : AppsPanelClosed(p)
    \/ \E p \in 1..Len(webviewPanels) : GoBack(p)

SpecAppsPanel == InitAppsPanel /\ [][NextAppsPanel]_vars

\* C28: at most one Apps Hub panel and at most one panel per app id exist;
\* the opens reveal the panel that exists instead of making a second one,
\* openApp with an id that is not in the registry makes no panel, and a
\* disposed panel is no longer in hubPanel or appPanels, so that a later open
\* makes a fresh one.
C28_OnePanelEach ==
    /\ Cardinality(LivePanels("hub")) <= 1
    /\ \A a \in AppRegistryIds : Cardinality(LivePanels(a)) <= 1
    /\ \A p \in 1..Len(webviewPanels) :
          webviewPanels[p].kind \in { "hub" } \cup AppRegistryIds
    /\ LivePanels("hub") = (IF hubPanel = 0 THEN {} ELSE { hubPanel })
    /\ \A a \in OpenAppIds :
          LivePanels(a) = (IF a \in DOMAIN appPanels THEN { appPanels[a] } ELSE {})
    /\ panelFaults = {}
    /\ (lastOpen.op = "openApp" /\ lastOpen.outcome = "notFound") <=>
          (lastOpen.op = "openApp" /\ ~GetAppById(lastOpen.appId))

\* C28 witness: an app's panel was closed and opened again, and an open of
\* the same app then revealed the second panel: the first is disposed, the
\* second is the one in appPanels.
C28_ReopenedThenRevealed ==
    /\ Len(webviewPanels) = 2
    /\ webviewPanels[1].kind = "codeReview" /\ webviewPanels[1].disposed
    /\ webviewPanels[2].kind = "codeReview" /\ ~webviewPanels[2].disposed
    /\ appPanels = [a \in { "codeReview" } |-> 2]
    /\ lastOpen = [op |-> "openApp", appId |-> "codeReview", outcome |-> "revealed"]

\* ------------------------------------------------------------ the gateway
\* The lazy accessor getGateway of activate (src/unnamed/part_004, lines
\* 119-158) and its callers.

\* The largest number of calls of getGateway.
MaxGatewayCalls == 3

\* Who calls getGateway: a command, the auto-start, the URI handler, the panel.
GatewayCallers == { "command", "autoStart", "uriHandler", "panel" }

\* The variable gateway after `const gw = new CopilotApiGateway(...)`.
GatewayUnassigned(current, gw) == current
GatewayAssigned(current, gw) == gw

activationFrame ==
    /\ hostFrame
    /\ UNCHANGED << diagVars, webviewVars, dashVars, appsPanelVars >>

\* getGateway is called: it returns the gateway there is (lines 121-123), or
\* makes one, assigns it (lines 125-126), registers the listeners and awaits
\* updateStatusBar (line 156).
GetGateway(caller) ==
    /\ Len(gatewayCalls) < MaxGatewayCalls
    /\ IF gateway # 0
       THEN /\ gatewayCalls' = Append(gatewayCalls,
                                      [caller |-> caller, pc |-> "returned", gw |-> gateway])
            /\ UNCHANGED << gateway, gatewaysMade >>
       ELSE /\ gatewaysMade' = gatewaysMade + 1
            /\ gateway' = GatewayAssigned(gateway, gatewaysMade + 1)
            /\ gatewayCalls' = Append(gatewayCalls,
                                      [caller |-> caller, pc |-> "await",
                                       gw |-> gatewaysMade + 1])
    /\ activationFrame

\* updateStatusBar settles (line 156): the call returns gw (line 157), or is
\* rejected when gateway.getStatus was.
UpdateStatusBarSettles(i, ok) ==
    /\ i \in 1..Len(gatewayCalls)
    /\ gatewayCalls[i].pc = "await"
    /\ gatewayCalls' = [gatewayCalls EXCEPT ![i].pc = IF ok THEN "returned" ELSE "rejected"]
    /\ UNCHANGED << gateway, gatewaysMade >>
    /\ activationFrame

InitActivation == Constructed(DirOf({}), 0, Today * DayUnits + 1)

NextActivation ==
    \/ \E caller \in GatewayCallers : GetGateway(caller)
    \/ \E i \in 1..Len(gatewayCalls) : \E ok \in BOOLEAN : UpdateStatusBarSettles(i, ok)

SpecActivation == InitActivation /\ [][NextActivation]_vars

\* C27: at most one CopilotApiGateway is constructed per activation for any
\* interleaving of the callers of getGateway, and every caller that is
\* answered receives that one instance.
C27_OneGateway ==
    /\ gatewaysMade <= 1
    /\ \A i \in 1..Len(gatewayCalls) :
          /\ gatewayCalls[i].gw = 1
          /\ gatewayCalls[i].pc = "returned" => gatewayCalls[i].gw = gateway

\* C27 witness: the auto-start made the gateway and still awaits the status
\* bar; a command and the URI handler called meanwhile and were given it.
C27_CalledWhileConstructing ==
    /\ Len(gatewayCalls) = 3
    /\ gatewayCalls[1] = [caller |-> "autoStart", pc |-> "await", gw |-> 1]
    /\ gatewayCalls[2] = [caller |-> "command", pc |-> "returned", gw |-> 1]
    /\ gatewayCalls[3] = [caller |-> "uriHandler", pc |-> "returned", gw |-> 1]
    /\ gatewaysMade = 1

=============================================================================
